---- MODULE Spec2Model ----
(***************************************************************************)
(* Venue recommendation pipeline of src/app.py:                            *)
(*   load_csv_data -> find_top_matches -> get_top_restaurants,             *)
(* driven by find_best_restaurants (Spec).  External collaborators (the    *)
(* embedding provider, the chat-completion provider, the file system, the  *)
(* Gmail service) are nondeterministic inputs of the actions.              *)
(*                                                                         *)
(* Further specifications, each over its own variables:                    *)
(*   SpecQueries    create_search_queries on any event description;        *)
(*   SpecStages     get_top_restaurants and generate_venue_recommendation  *)
(*                  as invocations that issue requests;                    *)
(*   SpecLoads      load_csv_data run by two concurrent sessions;          *)
(*   SpecMail       EmailSystem.send_email (src/email_module.py);          *)
(*   SpecSelection  toggle_venue_selection (src/main_v2.py);               *)
(*   SpecClient     get_email_client run by two concurrent sessions;       *)
(*   SpecOutreach   the inquiries of shortlist_page (src/main_v2.py);      *)
(*   SpecRecs       the recommendations of search_page (src/main_v2.py).   *)
(*                                                                         *)
(* Representation.  A venue name is a sequence of character codes; codes   *)
(* above 100 are upper-case letters, lower(c) = c - 100.  An embedding is  *)
(* a 2-d integer vector whose norm is an integer, so cosine similarity is  *)
(* exact; similarities and scores are kept in ten-thousandths, which is    *)
(* what round(float(score), 4) keeps.  A DataFrame cell, a DataFrame and   *)
(* the dict returned to the caller are records with explicit presence      *)
(* flags (isNone, has_error, ...), since Python's None and a missing dict  *)
(* key have no typed counterpart.                                          *)
(***************************************************************************)
EXTENDS Integers, Sequences, FiniteSets, TLC

VARIABLES
    csv,                  \* rows of the original catalog file (csv_path)
    event,                \* the event description of the current run
    embedding_csv,        \* the *_with_embeddings.csv file: [exists, rows]
    pc,                   \* position of find_best_restaurants
    df,                   \* load_csv_data's return value: [isNone, rows]
    crit,                 \* index of the next criterion of find_top_matches' loop
    top_matches,          \* find_top_matches' dict so far: [isNone, lists]
    all_selected_venues,  \* find_top_matches' cross-criterion set
    embed_failed,         \* criteria whose query embedding call failed (history)
    repeats,              \* history of additions of already-selected names
    provider,             \* the chat-completion outcome of the current run (history)
    result                \* find_best_restaurants' return value

\* create_search_queries called on its own
VARIABLES
    query_details,        \* the argument of the calls
    returned              \* what each call so far returned or raised, in order

\* get_top_restaurants and generate_venue_recommendation, one invocation at a time
VARIABLES
    stage,                \* the function being invoked: 0 none, 1 or 2
    stage_pc,             \* position inside the invocation
    stage_lists,          \* Stage 1's argument top_matches
    venue_data,           \* Stage 2's argument venue_data
    venue_index,          \* Stage 2's argument venue_index
    requests,             \* chat-completion requests the invocation has issued
    response,             \* what the request of the invocation came back with
    stage_result,         \* the value the invocation returned
    recommended_venues    \* the venues Stage 1 returned last (session state)

\* load_csv_data run by concurrent sessions on one catalog
VARIABLES
    catalog,              \* rows of the original catalog file
    store,                \* the *_with_embeddings.csv file: [exists, rows]
    loader,               \* per session: position, local DataFrame, changes_made
    persisted              \* rows whose embedding the file has held (history)

\* EmailSystem.send_email
VARIABLES
    transport,            \* recipients of the messages handed to the Gmail service
    sent                  \* the last call: arguments, returned dict, raised or not

\* toggle_venue_selection on st.session_state
VARIABLES
    selected_venues,      \* st.session_state.selected_venues
    toggled               \* the last call: [venue, selected, before]

\* get_email_client called by concurrent sessions
VARIABLES
    EMAIL_CLIENT,         \* the module global: 0 is None, n the n-th EmailSystem
    constructed,          \* EmailSystem objects constructed so far
    session,              \* per session: position and local values
    handed                \* instances get_email_client has returned (history)

\* shortlist_page: inquiries to the selected venues
VARIABLES
    shortlisted,          \* names of st.session_state.selected_venues, in order
    emails_sent,          \* names n with st.session_state.emails_sent[n] = True
    buttons,              \* buttons the last run rendered enabled: [send, all]
    contact_ready,        \* the name and e-mail inputs are both filled in
    issued,               \* send_venue_request calls per venue since the reset (history)
    returned_sent         \* venues a call returned status "sent" for (history)

\* search_page: the detailed recommendation of each displayed venue
VARIABLES
    displayed,            \* names of st.session_state.recommended_venues, in order
    venue_recommendations,    \* st.session_state.venue_recommendations
    loading_recommendations,  \* st.session_state.loading_recommendations
    cursor,               \* position of the run in the loop over venues, 0 at rest
    rec_calls,            \* get_venue_recommendation calls per key since the reset (history)
    written,              \* what st.write last showed for each key (history)
    resets                \* number of reset_search calls (history)

pipelineVars == <<csv, event, embedding_csv, pc, df, crit, top_matches,
                  all_selected_venues, embed_failed, repeats, provider, result>>
queryVars == <<query_details, returned>>
stageVars == <<stage, stage_pc, stage_lists, venue_data, venue_index, requests,
               response, stage_result, recommended_venues>>
loadVars == <<catalog, store, loader, persisted>>
mailVars == <<transport, sent>>
selectionVars == <<selected_venues, toggled>>
clientVars == <<EMAIL_CLIENT, constructed, session, handed>>
outreachVars == <<shortlisted, emails_sent, buttons, contact_ready, issued,
                  returned_sent>>
recVars == <<displayed, venue_recommendations, loading_recommendations, cursor,
             rec_calls, written, resets>>

vars == <<pipelineVars, queryVars, stageVars, loadVars, mailVars, selectionVars,
          clientVars, outreachVars, recVars>>

(* Each specification below runs one part of the program; the variables of
   the other parts stay at these values. *)
QueriesIdle == query_details = <<>> /\ returned = <<>>
StagesIdle ==
    /\ stage = 0 /\ stage_pc = "idle" /\ stage_lists = <<>> /\ venue_data = <<>>
    /\ venue_index = 0 /\ requests = 0 /\ response = <<>> /\ stage_result = <<>>
    /\ recommended_venues = <<>>
LoadsIdle == catalog = <<>> /\ store = <<>> /\ loader = <<>> /\ persisted = {}
MailIdle == transport = <<>> /\ sent = <<>>
SelectionIdle == selected_venues = <<>> /\ toggled = <<>>
ClientIdle == EMAIL_CLIENT = 0 /\ constructed = 0 /\ session = <<>> /\ handed = {}
OutreachIdle ==
    /\ shortlisted = <<>> /\ emails_sent = {} /\ buttons = <<>>
    /\ contact_ready = FALSE /\ issued = <<>> /\ returned_sent = {}
RecsIdle ==
    /\ displayed = <<>> /\ venue_recommendations = <<>>
    /\ loading_recommendations = {} /\ cursor = 0 /\ rec_calls = <<>>
    /\ written = <<>> /\ resets = 0

notPipeline == <<queryVars, stageVars, loadVars, mailVars, selectionVars, clientVars, outreachVars, recVars>>

----------------------------------------------------------------------------
(* Bounds of the model *)

\* largest catalog (rows of the csv file)
MaxVenues == 30
\* longest list of names a successful provider response is drawn with
MaxRespLen == 2
\* rows 1..MaxFailRow are those whose embedding call may fail during a load
MaxFailRow == 2
\* most query embedding calls that fail within one run
MaxQueryFailures == 1
\* Stage 2 is invoked for the first MaxDescribed venues of a shortlist
MaxDescribed == 2
\* calls of create_search_queries made with one event description
MaxCalls == 2
\* largest catalog of the concurrent loads
MaxLoadRows == 2
\* messages handed to the Gmail service
MaxSends == 3
\* venues shown on the results page
MaxShown == 7
\* calls of get_email_client each session makes
MaxClientCalls == 2
\* venues on the shortlist page
MaxShortlisted == 2
\* send_venue_request calls per venue between two resets
MaxIssued == 2
\* venues on the results page
MaxDisplayed == 2
\* get_venue_recommendation calls per key between two resets
MaxRecCalls == 2
\* reset_search calls
MaxResets == 1

(* Program constants *)

\* get_top_restaurants: shortlist size (restaurant_names[:15], len(...) < 15)
ShortlistSize == 15
\* find_top_matches: num_matches = 25 if criterion == "overall" else 5
OverallMatches == 25
CriterionMatches == 5
\* toggle_venue_selection: len(venue_names) < 5
MaxSelected == 5

\* create_search_queries: the keys of the queries dict, in insertion order
Criteria == <<"overall", "meeting_rooms", "food", "location", "atmosphere", "budget">>

FallbackReasoning == "Selected based on similarity scores (algorithmic fallback)."
ProviderReasoning == "reasoning returned by the provider"

----------------------------------------------------------------------------
(* Generic helpers *)

Min(a, b) == IF a < b THEN a ELSE b

\* str.lower() on one character and on a name
LowerChar(c) == IF c > 100 THEN c - 100 ELSE c
Lower(name) == [i \in 1..Len(name) |-> LowerChar(name[i])]

\* Python's `a in b` on strings: a is a contiguous substring of b
IsSubstring(a, b) ==
    \E k \in 0..(Len(b) - Len(a)) : \A i \in 1..Len(a) : b[k + i] = a[i]

----------------------------------------------------------------------------
(* Embedding provider and cosine similarity *)

\* the vectors the embedding model answers with; all have integer norm
Vectors == << <<1, 0>>, <<4, 3>>, <<3, 4>>, <<0, 1>>, <<-1, 0>> >>

NoneCell == [kind |-> "None", v |-> <<0, 0>>]
NaNCell == [kind |-> "NaN", v |-> <<0, 0>>]
VecCell(v) == [kind |-> "vec", v |-> v]

\* generate_embedding: the vector for a text on success, None when the call raises
generate_embedding(text, ok) ==
    IF ok THEN VecCell(Vectors[((text - 1) % Len(Vectors)) + 1]) ELSE NoneCell

Dot(a, b) == a[1] * b[1] + a[2] * b[2]
Norm(a) == CHOOSE n \in 0..5 : n * n = Dot(a, a)

\* sklearn cosine_similarity of two vectors, in ten-thousandths
cosine_similarity(a, b) == (Dot(a, b) * 10000) \div (Norm(a) * Norm(b))

----------------------------------------------------------------------------
(* The catalog files *)

\* display name of catalog row i (1-based): two letters, the first upper-case
RowName(i) == <<101 + ((i - 1) \div 5), 1 + ((i - 1) % 5)>>

\* a catalog file of n rows; with dup, row 2 carries the name of row 1.
\* ragdata is the text of the row, identified by a number.
Catalog(n, dup) ==
    [i \in 1..n |-> [name |-> IF dup /\ i = 2 THEN RowName(1) ELSE RowName(i),
                     ragdata |-> i]]

CatalogSizes ==
    {n \in 0..MaxVenues : n <= 2 \/ n \in 14..16 \/ n >= MaxVenues - 1}

\* a catalog of 25 + 5 rows: the texts of the first 25 are close to every
\* query, those of the last 5 are far from all of them, and the last two
\* rows are two branches of one name
ChainCatalog ==
    [i \in 1..(OverallMatches + CriterionMatches) |->
        [name |-> IF i = OverallMatches + CriterionMatches
                  THEN RowName(i - 1) ELSE RowName(i),
         ragdata |-> IF i <= OverallMatches THEN 2 + ((i - 1) % 3) ELSE 5]]

Catalogs ==
    {Catalog(n, dup) : n \in CatalogSizes, dup \in BOOLEAN} \cup {ChainCatalog}

NoFile == [exists |-> FALSE, rows |-> <<>>]

\* json.dumps(x) if x is not None else None, then to_csv: None is written as
\* the empty field
ToCsvCell(cell) ==
    IF cell.kind = "vec" THEN [kind |-> "json", v |-> cell.v]
    ELSE [kind |-> "empty", v |-> <<0, 0>>]

\* read_csv, then json.loads(x) if isinstance(x, str) and x.startswith('[')
\* else x: the empty field is read as NaN and stays NaN
FromCsvCell(field) ==
    IF field.kind = "json" THEN VecCell(field.v) ELSE NaNCell

NoneFrame == [isNone |-> TRUE, rows |-> <<>>]
Frame(rows) == [isNone |-> FALSE, rows |-> rows]

\* load_csv_data(csv_path): returns the DataFrame (None on an exception) and
\* leaves the embeddings file as written.  `fails` are the rows whose
\* generate_embedding call raises; readError is read_csv raising.
load_csv_data(rows, file, fails, readError) ==
    IF readError THEN [df |-> NoneFrame, file |-> file]
    ELSE IF file.exists
    THEN [df |-> Frame([i \in 1..Len(file.rows) |->
                          [name |-> file.rows[i].name,
                           ragdata |-> file.rows[i].ragdata,
                           embedding |-> FromCsvCell(file.rows[i].embedding)]]),
          file |-> file]
    ELSE LET loaded == [i \in 1..Len(rows) |->
                          [name |-> rows[i].name,
                           ragdata |-> rows[i].ragdata,
                           embedding |-> generate_embedding(rows[i].ragdata, i \notin fails)]]
             \* every row of a fresh frame has a missing embedding, so
             \* changes_made is set as soon as there is a row
             changes_made == Len(rows) > 0
         IN  [df |-> Frame(loaded),
              file |-> IF changes_made
                       THEN [exists |-> TRUE,
                             rows |-> [i \in 1..Len(loaded) |->
                                         [name |-> loaded[i].name,
                                          ragdata |-> loaded[i].ragdata,
                                          embedding |-> ToCsvCell(loaded[i].embedding)]]]
                       ELSE file]

----------------------------------------------------------------------------
(* create_search_queries and find_top_matches *)

(* Python values of an event_details dict.  A text is a sequence of string
   tokens: the literal pieces of an f-string and the rendered values. *)
Absent == [kind |-> "absent", v |-> <<>>]
Null == [kind |-> "null", v |-> <<>>]
Str(s) == [kind |-> "str", v |-> <<s>>]
List(items) == [kind |-> "list", v |-> items]
Bool(b) == [kind |-> "bool", v |-> IF b THEN <<"True">> ELSE <<"False">>]
\* a number, carried by its decimal text
Num(s) == [kind |-> "num", v |-> <<s>>]

\* event_details.get(key, default): the default only when the key is absent
Get(d, key, default) == IF d[key].kind = "absent" THEN default ELSE d[key]

\* the truth value of `if x` / `x if x else y`
Truthy(x) ==
    CASE x.kind = "str" -> x.v # <<"">>
      [] x.kind = "list" -> x.v # <<>>
      [] x.kind = "bool" -> x.v = <<"True">>
      [] x.kind = "num" -> x.v # <<"0">>
      [] OTHER -> FALSE

\* sep.join(items) on a list of strings
RECURSIVE Join(_, _)
Join(sep, items) ==
    IF items = <<>> THEN <<>>
    ELSE IF Len(items) = 1 THEN <<items[1]>>
    ELSE <<items[1], sep>> \o Join(sep, Tail(items))

\* sep.join(x) raises TypeError unless x is iterable
JoinRaises(x) == x.kind \notin {"list", "str"}

\* str(x), as an f-string replacement field renders it
Format(x) ==
    CASE x.kind = "null" -> <<"None">>
      [] x.kind = "list" ->
            <<"[">> \o Join(", ", x.v) \o <<"]">>
      [] x.kind = "str" -> IF x.v = <<"">> THEN <<>> ELSE x.v
      [] OTHER -> x.v

\* str.strip() of a text whose only blanks at the ends are " " tokens
RECURSIVE Strip(_)
Strip(t) ==
    IF t = <<>> THEN <<>>
    ELSE IF t[Len(t)] = " " THEN Strip(SubSeq(t, 1, Len(t) - 1))
    ELSE IF t[1] = " " THEN Strip(Tail(t))
    ELSE t

\* dietary_text
dietary_text(d) ==
    LET dietary_list == Get(d, "dietary_restrictions", List(<<>>))
    IN  IF dietary_list.kind = "list" THEN Join(", ", dietary_list.v)
        ELSE Format(dietary_list)

\* event_duration
event_duration(d) ==
    IF Truthy(Get(d, "one_day_event", Bool(FALSE))) THEN <<"One Day Event">>
    ELSE <<"Multi-day Event (">> \o Format(Get(d, "start_date", Str("")))
         \o <<" to ">> \o Format(Get(d, "end_date", Str(""))) \o <<")">>

\* distance_query
distance_query(d) ==
    LET address_proximity == Get(d, "address_proximity", Str(""))
        neighborhood_pref == Get(d, "neighborhood_preference", Str(""))
        q == (IF Truthy(address_proximity)
              THEN <<"Must be within ~5 miles of ">> \o Format(address_proximity)
                   \o <<".", " ">>
              ELSE <<>>)
             \o (IF Truthy(neighborhood_pref)
                 THEN <<"Strong preference for the ">> \o Format(neighborhood_pref)
                      \o <<" area.", " ">>
                 ELSE <<>>)
    IN  IF q = <<>> THEN <<"No strict distance constraint specified.", " ">> ELSE q

\* `x if x else placeholder`
OrElse(x, placeholder) == IF Truthy(x) THEN Format(x) ELSE <<placeholder>>

\* the private-preference line of the location and atmosphere queries
PrivateLine(d) ==
    LET private_preference == Get(d, "private_preference", Str("No Preference"))
    IN  IF private_preference # Str("No Preference")
        THEN <<"Private/Semi-Private Space: ">> \o Format(private_preference)
        ELSE <<>>

\* the f-string of one label of the queries dict
QueryText(d, label) ==
    LET atmosphere == Get(d, "atmosphere", Str(""))
        private_preference == Get(d, "private_preference", Str("No Preference"))
        special_requirements == Get(d, "special_requirements", Str(""))
        one_day_event == Get(d, "one_day_event", Bool(FALSE))
        diet == IF dietary_text(d) # <<>> /\ dietary_text(d) # <<"">>
                THEN dietary_text(d) ELSE <<"N/A">>
        attendees == Format(Get(d, "attendees", Num("30")))
        venue_budget == Format(Get(d, "venue_budget", Num("10000")))
        food_beverage == Format(Get(d, "food_beverage", Str("Basic Catering")))
        locations == Join(", ", Get(d, "locations", List(<<"New York">>)).v)
        distance == Strip(distance_query(d))
    IN  CASE label = "overall" ->
               <<"COMPREHENSIVE VENUE REQUIREMENTS:", "- Event Name: ">>
               \o Format(Get(d, "event_name", Str("Corporate Event")))
               \o <<"- Event Type: ">> \o Format(Get(d, "event_type", Str("Meeting")))
               \o <<"- Venue Category: ">> \o Format(Get(d, "venue_type", Str("Any")))
               \o <<"- Date Range: ">> \o Format(Get(d, "start_date", Str("")))
               \o <<" to ">> \o Format(Get(d, "end_date", Str("")))
               \o <<"- One Day Event?: ">> \o Format(one_day_event)
               \o <<"- Locations: ">> \o locations
               \o <<"- Distance Query: ">> \o distance
               \o <<"- Desired Atmosphere: ">> \o OrElse(atmosphere, "No specific vibe stated")
               \o <<"- Private vs Semi-Private Preference: ">> \o Format(private_preference)
               \o <<"- Exact Attendee Count: ">> \o attendees
               \o <<"- Venue Budget: $">> \o venue_budget
               \o <<"- Meeting Room Configuration: ">>
               \o Format(Get(d, "meeting_rooms", Str("Conference style")))
               \o <<"- Food & Beverage Needs: ">> \o food_beverage
               \o <<"- Dietary Restrictions: ">> \o diet
               \o <<"- Hotel Rooms Needed: ">> \o Format(Get(d, "hotel_rooms", Num("0")))
               \o <<"- Other Special Requirements: ">> \o OrElse(special_requirements, "None")
               \o <<"- Attendee Origins: ">>
               \o Format(Get(d, "attendee_origins", Str("Mixed/Unknown")))
               \o <<"- Additional Notes: ">> \o Format(Get(d, "notes", Str("N/A")))
               \o <<"- Decision Date: ">> \o Format(Get(d, "decision_date", Str("N/A")))
               \o <<"- Event Time: ">> \o Format(Get(d, "event_time", Str("")))
               \o <<">>> PRIMARY GOAL: ...">>
          [] label = "meeting_rooms" ->
               <<"PRIORITY: Meeting Space & Layout", "- MUST accommodate EXACTLY ">>
               \o attendees \o <<" attendees.", "- Required Room Configuration: ">>
               \o Format(Get(d, "meeting_rooms", Str("Multiple breakouts")))
               \o <<"- Private/Semi-Private Preference: ">> \o Format(private_preference)
               \o <<"- Typical A/V Needs (projectors, microphones, etc.)",
                    "- Emphasize convenience of location: ">> \o distance
               \o <<"- This is the PRIMARY focus of our venue search.">>
          [] label = "food" ->
               <<"PRIORITY: Food & Beverage", "- Must be suitable for a ">>
               \o Format(Get(d, "event_type", Str("business"))) \o <<" event",
                    "- Specific F&B Requirements: ">> \o food_beverage
               \o <<"- Dietary Restrictions: ">> \o diet
               \o <<"- Must comfortably serve ">> \o attendees \o <<" people",
                    "- Emphasize quality, variety, and any special dietary needs",
                    "- Budget limit is $">> \o venue_budget
               \o <<"- Prefer location: ">> \o distance
          [] label = "location" ->
               <<"PRIORITY: Location & Accessibility", "- Primary locations: ">>
               \o locations \o <<"- ">> \o distance
               \o <<"- Easy transportation access for ">> \o attendees \o <<" attendees",
                    "- ">> \o PrivateLine(d)
               \o <<"- Suitable for ">> \o Format(Get(d, "event_type", Str("business")))
               \o <<" events", "- Close to hotels/accommodations if needed: ">>
               \o Format(Get(d, "hotel_rooms", Num("0"))) \o <<" rooms",
                    "- This is a CRITICAL factor in our venue selection.">>
          [] label = "atmosphere" ->
               <<"PRIORITY: Ambiance & Atmosphere", "- SPECIFIC ATMOSPHERE DESIRED: ">>
               \o OrElse(atmosphere, "Professional yet comfortable")
               \o <<"- Must match the tone of a ">>
               \o Format(Get(d, "event_type", Str("business"))) \o <<" event",
                    "- Suitable for ">> \o attendees \o <<" attendees",
                    "- Setting should facilitate ">>
               \o Format(Get(d, "event_type", Str("business"))) \o <<" activities",
                    "- ">> \o PrivateLine(d)
               \o <<"- Lighting, acoustics, and overall vibe are important considerations">>
          [] OTHER ->
               <<"PRIORITY: Budget & Cost", "- Hard budget ceiling of $">> \o venue_budget
               \o <<"- Venue + F&B must fit within this budget for ">> \o attendees
               \o <<" attendees",
                    "- Seek all-inclusive or transparent pricing (avoid hidden fees)",
                    "- Keep location preference in mind: ">> \o distance
               \o <<"- Budget needs to cover:", "- Venue rental for ">> \o event_duration(d)
               \o <<"- Food & beverage: ">> \o food_beverage
               \o <<"- Meeting space: ">>
               \o Format(Get(d, "meeting_rooms", Str("Conference style")))
               \o <<"- Any technical requirements: ">>
               \o OrElse(special_requirements, "Standard A/V")

\* Labels with the last key left out of the dict literal
LabelsWithoutBudget == {Criteria[k] : k \in 1..(Len(Criteria) - 1)}

\* the keys of the queries dict
Labels == {Criteria[k] : k \in 1..Len(Criteria)}

\* create_search_queries(event_details): the queries dict, or the TypeError
\* that ', '.join(...) raises while the dict literal is evaluated
create_search_queries(event_details) ==
    IF JoinRaises(Get(event_details, "locations", List(<<"New York">>)))
    THEN [raised |-> TRUE, queries |-> [label \in Labels |-> <<>>]]
    ELSE [raised |-> FALSE,
          queries |-> [label \in Labels |-> QueryText(event_details, label)]]

\* the keys create_search_queries reads
Fields ==
    {"address_proximity", "neighborhood_preference", "atmosphere",
     "dietary_restrictions", "private_preference", "special_requirements",
     "event_time", "one_day_event", "start_date", "end_date", "event_name",
     "event_type", "venue_type", "locations", "attendees", "venue_budget",
     "meeting_rooms", "food_beverage", "hotel_rooms", "attendee_origins",
     "notes", "decision_date"}

\* the dict with no key: st.session_state.event_details before the form
EmptyDetails == [f \in Fields |-> Absent]

\* the dict the form builds on submission: every key present, locations and
\* dietary_restrictions lists (multiselect), the free texts possibly empty
FormDetails(locations, dietary, atmosphere, address, one_day) ==
    [f \in Fields |->
        CASE f = "locations" -> List(locations)
          [] f = "dietary_restrictions" -> List(dietary)
          [] f = "atmosphere" -> Str(atmosphere)
          [] f = "address_proximity" -> Str(address)
          [] f = "neighborhood_preference" -> Str("")
          [] f = "special_requirements" -> Str("")
          [] f = "private_preference" -> Str("No Preference")
          [] f = "one_day_event" -> Bool(one_day)
          [] f \in {"attendees", "venue_budget", "hotel_rooms"} -> Num("50")
          [] OTHER -> Str(f)]

\* the events of the pipeline's runs: two submitted forms, and a JSON
\* document whose locations is null (json.loads of the str argument)
Events ==
    {FormDetails(<<"New York">>, <<>>, "", "", TRUE),
     FormDetails(<<"Boston", "Chicago">>, <<"Vegan">>, "quiet", "5th Avenue", FALSE),
     [EmptyDetails EXCEPT !["locations"] = Null]}

\* the embedding provider answers as a function of the text; a query text
\* is identified to it by its length in tokens
TextKey(text) == Len(text)

\* the loop over df.iterrows() raises iff cosine_similarity is reached with a
\* query embedding of None or a row embedding of NaN; a row whose embedding
\* is None is skipped before the call
ScoringRaises(rows, qe) ==
    \E i \in 1..Len(rows) :
        /\ rows[i].embedding.kind # "None"
        /\ (qe.kind = "None" \/ rows[i].embedding.kind = "NaN")

\* similarities: (idx, similarity, row) for every row with an embedding, in
\* catalog order; idx is the 0-based DataFrame index
RECURSIVE ScoreRows(_, _, _)
ScoreRows(rows, qe, i) ==
    IF i > Len(rows) THEN <<>>
    ELSE (IF rows[i].embedding.kind # "None"
          THEN <<[id |-> i - 1, name |-> rows[i].name,
                  score |-> cosine_similarity(qe.v, rows[i].embedding.v)]>>
          ELSE <<>>) \o ScoreRows(rows, qe, i + 1)

MaxScore(s) == CHOOSE m \in {s[i].score : i \in 1..Len(s)} :
                   \A i \in 1..Len(s) : s[i].score <= m

\* SortByScore with an unstable sort: descending, equal scores last first
RECURSIVE SortByScoreUnstable(_)
SortByScoreUnstable(s) ==
    IF s = <<>> THEN <<>>
    ELSE LET m == MaxScore(s)
             best == SelectSeq(s, LAMBDA e : e.score = m)
         IN  [i \in 1..Len(best) |-> best[Len(best) + 1 - i]]
                 \o SortByScoreUnstable(SelectSeq(s, LAMBDA e : e.score < m))

\* list.sort / sorted with key = score, reverse=True: stable, descending
RECURSIVE SortByScore(_)
SortByScore(s) ==
    IF s = <<>> THEN <<>>
    ELSE LET m == MaxScore(s)
         IN  SelectSeq(s, LAMBDA e : e.score = m)
                 \o SortByScore(SelectSeq(s, LAMBDA e : e.score < m))

\* len([v for v in similarities if name(v) not in all_selected_venues])
UnselectedRows(sims, allsel) ==
    Len(SelectSeq(sims, LAMBDA e : e.name \notin allsel))

UnselectedNames(sims, allsel) ==
    Cardinality({sims[i].name : i \in 1..Len(sims)} \ allsel)

num_matches(criterion) ==
    IF criterion = "overall" THEN OverallMatches ELSE CriterionMatches

\* appending an entry to diverse_matches; an addition of a name some
\* criterion had already selected is recorded in log with the number of
\* names no criterion has selected yet and the number of open slots
Append1(st, e, num, sims, criterion, addToAll) ==
    [diverse |-> Append(st.diverse, e),
     seen |-> st.seen \cup {e.name},
     allsel |-> IF addToAll THEN st.allsel \cup {e.name} ELSE st.allsel,
     log |-> IF e.name \in st.allsel
             THEN st.log \cup {[criterion |-> criterion,
                                remaining |-> UnselectedNames(sims, st.allsel),
                                slots |-> num - Len(st.diverse)]}
             ELSE st.log]

\* DiversityStep with overall kept apart from the cross-criterion set: names
\* selected under overall are not added to all_selected_venues
DiversityStepOverallApart(st, e, num, sims, criterion) ==
    IF e.name \notin st.seen /\ Len(st.diverse) < num
    THEN IF criterion # "overall" /\ e.name \in st.allsel
         THEN IF UnselectedRows(sims, st.allsel) < num
              THEN Append1(st, e, num, sims, criterion, FALSE)
              ELSE st
         ELSE Append1(st, e, num, sims, criterion, criterion # "overall")
    ELSE st

\* one iteration of the first loop over similarities (the diversity pass)
DiversityStep(st, e, num, sims, criterion) ==
    IF e.name \notin st.seen /\ Len(st.diverse) < num
    THEN IF criterion # "overall" /\ e.name \in st.allsel
         THEN IF UnselectedRows(sims, st.allsel) < num
              THEN Append1(st, e, num, sims, criterion, FALSE)
              ELSE st
         ELSE Append1(st, e, num, sims, criterion, TRUE)
    ELSE st

RECURSIVE DiversityPass(_, _, _, _, _)
DiversityPass(st, sims, i, num, criterion) ==
    \* once the list is full no later iteration changes anything
    IF i > Len(sims) \/ Len(st.diverse) >= num THEN st
    ELSE DiversityPass(DiversityStep(st, sims[i], num, sims, criterion),
                       sims, i + 1, num, criterion)

\* FillStep never adding: the list stays as the diversity pass left it
FillStepSkipped(st, e, num, sims, criterion) == st

\* one iteration of the second loop (fill remaining slots)
FillStep(st, e, num, sims, criterion) ==
    IF e.name \notin st.seen /\ Len(st.diverse) < num
    THEN Append1(st, e, num, sims, criterion, TRUE)
    ELSE st

RECURSIVE FillPass(_, _, _, _, _)
FillPass(st, sims, i, num, criterion) ==
    IF i > Len(sims) \/ Len(st.diverse) >= num THEN st
    ELSE FillPass(FillStep(st, sims[i], num, sims, criterion),
                  sims, i + 1, num, criterion)

\* the body of find_top_matches' loop for one criterion, given that scoring
\* did not raise
SelectMatches(rows, criterion, qe, allsel) ==
    LET sims == SortByScore(ScoreRows(rows, qe, 1))
        num == num_matches(criterion)
        st0 == [diverse |-> <<>>, seen |-> {}, allsel |-> allsel, log |-> {}]
        st1 == DiversityPass(st0, sims, 1, num, criterion)
    IN  IF Len(st1.diverse) < num
        THEN FillPass(st1, sims, 1, num, criterion)
        ELSE st1

NoMatches == [isNone |-> TRUE, lists |-> <<>>]

----------------------------------------------------------------------------
(* get_top_restaurants (Stage 1) *)

\* all_venues: the per-criterion lists concatenated in dict order
RECURSIVE Flatten(_, _)
Flatten(lists, k) ==
    IF k > Len(lists) THEN <<>> ELSE lists[k] \o Flatten(lists, k + 1)

IndexOfName(d, name) ==
    IF \E j \in 1..Len(d) : d[j].name = name
    THEN CHOOSE j \in 1..Len(d) : d[j].name = name
    ELSE 0

\* BuildVenueDict keeping the first instance of a name whatever its score
RECURSIVE BuildVenueDictKeepFirst(_, _, _)
BuildVenueDictKeepFirst(all, i, d) ==
    IF i > Len(all) THEN d
    ELSE IF IndexOfName(d, all[i].name) = 0
         THEN BuildVenueDictKeepFirst(all, i + 1, Append(d, all[i]))
         ELSE BuildVenueDictKeepFirst(all, i + 1, d)

\* venue_dict: a dict keeps insertion order, and replacing a value keeps the
\* key's position; it is modelled as the sequence of its values
RECURSIVE BuildVenueDict(_, _, _)
BuildVenueDict(all, i, d) ==
    IF i > Len(all) THEN d
    ELSE LET j == IndexOfName(d, all[i].name)
         IN  IF j = 0
             THEN BuildVenueDict(all, i + 1, Append(d, all[i]))
             ELSE IF all[i].score > d[j].score
                  THEN BuildVenueDict(all, i + 1, [d EXCEPT ![j] = all[i]])
                  ELSE BuildVenueDict(all, i + 1, d)

\* TakeUnseen stopping one entry early (len(acc) < 14)
RECURSIVE TakeUnseenOneShort(_, _, _, _)
TakeUnseenOneShort(sorted, i, acc, seen) ==
    IF i > Len(sorted) THEN acc
    ELSE IF sorted[i].name \notin seen /\ Len(acc) < ShortlistSize - 1
         THEN TakeUnseenOneShort(sorted, i + 1, Append(acc, sorted[i]),
                                 seen \cup {sorted[i].name})
         ELSE TakeUnseenOneShort(sorted, i + 1, acc, seen)

\* the loops `for venue in sorted_venues: if venue['name'] not in seen and
\* len(acc) < 15: acc.append(...)` of the fallback and of the top-up
RECURSIVE TakeUnseen(_, _, _, _)
TakeUnseen(sorted, i, acc, seen) ==
    IF i > Len(sorted) THEN acc
    ELSE IF sorted[i].name \notin seen /\ Len(acc) < ShortlistSize
         THEN TakeUnseen(sorted, i + 1, Append(acc, sorted[i]), seen \cup {sorted[i].name})
         ELSE TakeUnseen(sorted, i + 1, acc, seen)

\* FallbackNames without the sort: the first 15 distinct names in pool order
FallbackNamesUnsorted(all) ==
    LET picked == TakeUnseen(all, 1, <<>>, {})
    IN  [i \in 1..Len(picked) |-> picked[i].name]

\* the except branch of the inner try: names of the top scored venues
FallbackNames(all) ==
    LET picked == TakeUnseen(SortByScore(all), 1, <<>>, {})
    IN  [i \in 1..Len(picked) |-> picked[i].name]

\* the partial match: the first venue_dict item, in dict order, whose name
\* contains the returned name or is contained in it, compared in lower case
PartialMatch(d, rn) ==
    LET hits == {j \in 1..Len(d) :
                    \/ IsSubstring(Lower(rn), Lower(d[j].name))
                    \/ IsSubstring(Lower(d[j].name), Lower(rn))}
    IN  IF hits = {} THEN 0 ELSE CHOOSE j \in hits : \A h \in hits : j <= h

\* ResolveName without the partial match
ResolveNameExactOnly(d, rn) == IndexOfName(d, rn)

\* venue_dict.get(restaurant_name), then the partial match; 0 when not found
ResolveName(d, rn) ==
    IF IndexOfName(d, rn) # 0 THEN IndexOfName(d, rn) ELSE PartialMatch(d, rn)

RECURSIVE ResolveNames(_, _, _)
ResolveNames(d, names, i) ==
    IF i > Min(Len(names), ShortlistSize) THEN <<>>
    ELSE (IF ResolveName(d, names[i]) # 0
          THEN <<d[ResolveName(d, names[i])]>>
          ELSE <<>>) \o ResolveNames(d, names, i + 1)

\* TopUp in pool order instead of score order
TopUpUnsorted(resolved, all) ==
    IF Len(resolved) < ShortlistSize
    THEN TakeUnseen(all, 1, resolved, {resolved[i].name : i \in 1..Len(resolved)})
    ELSE resolved

\* TopUp left out: the resolved venues are returned as they are
TopUpSkipped(resolved, all) == resolved

\* if len(top_15_venues) < 15: fill with top-scoring ones
TopUp(resolved, all) ==
    IF Len(resolved) < ShortlistSize
    THEN TakeUnseen(SortByScore(all), 1, resolved,
                    {resolved[i].name : i \in 1..Len(resolved)})
    ELSE resolved

Shortlist(venues, reasoning) ==
    [has_error |-> FALSE, error |-> "",
     has_top |-> TRUE, top_restaurants |-> venues,
     has_reasoning |-> TRUE, selection_reasoning |-> reasoning]

\* {"error": str(e), "top_restaurants": []}
ErrorWithEmptyTop(msg) ==
    [has_error |-> TRUE, error |-> msg,
     has_top |-> TRUE, top_restaurants |-> <<>>,
     has_reasoning |-> FALSE, selection_reasoning |-> ""]

\* {"error": msg}
ErrorOnly(msg) ==
    [has_error |-> TRUE, error |-> msg,
     has_top |-> FALSE, top_restaurants |-> <<>>,
     has_reasoning |-> FALSE, selection_reasoning |-> ""]

NoResult ==
    [has_error |-> FALSE, error |-> "",
     has_top |-> FALSE, top_restaurants |-> <<>>,
     has_reasoning |-> FALSE, selection_reasoning |-> ""]

\* Outcomes of client.chat.completions.create + json.loads:
\*   kind "api_error"  the call raises;
\*   kind "malformed"  json.loads raises on the content;
\*   kind "json"       a JSON object; selected is "missing" (no
\*                     selected_restaurants key), "names" (a list of strings)
\*                     or "not_a_list" (null, a number or an object, which
\*                     restaurant_names[:15] cannot slice).
Outcome(kind, selected, names, has_reasoning) ==
    [kind |-> kind, selected |-> selected, names |-> names,
     has_reasoning |-> has_reasoning]

NoOutcome == Outcome("none", "missing", <<>>, FALSE)

\* get_top_restaurants(top_matches, event_details) for one provider outcome
get_top_restaurants(lists, out) ==
    LET all_venues == Flatten(lists, 1)
        venue_dict == BuildVenueDict(all_venues, 1, <<>>)
        failed == out.kind \in {"api_error", "malformed"}
        restaurant_names ==
            IF failed THEN FallbackNames(all_venues)
            ELSE IF out.selected = "names" THEN out.names ELSE <<>>
        selection_reasoning ==
            IF failed THEN FallbackReasoning
            ELSE IF out.has_reasoning THEN ProviderReasoning ELSE ""
    IN  IF ~failed /\ out.selected = "not_a_list"
        THEN ErrorWithEmptyTop("TypeError")
        ELSE Shortlist(TopUp(ResolveNames(venue_dict, restaurant_names, 1), all_venues),
                       selection_reasoning)

----------------------------------------------------------------------------
(* find_best_restaurants as a state machine: one action per call it awaits *)

\* names a provider may answer with: a catalog name, another catalog name in
\* lower case, a single letter, and a name unrelated to the catalog
ResponseNames == {RowName(1), Lower(RowName(2)), <<2>>, <<126, 126>>}

RECURSIVE SeqsUpTo(_, _)
SeqsUpTo(S, n) ==
    IF n = 0 THEN {<<>>}
    ELSE LET shorter == SeqsUpTo(S, n - 1)
         IN  shorter \cup {Append(q, x) : q \in {r \in shorter : Len(r) = n - 1}, x \in S}

\* every name of the pool, last first: a response of more than 15 names when
\* the pool is that large
ReversedPoolNames(lists) ==
    LET d == BuildVenueDict(Flatten(lists, 1), 1, <<>>)
    IN  [i \in 1..Len(d) |-> d[Len(d) + 1 - i].name]

Outcomes(lists) ==
    {Outcome("api_error", "missing", <<>>, FALSE),
     Outcome("malformed", "missing", <<>>, FALSE),
     Outcome("json", "not_a_list", <<>>, TRUE)}
    \cup {Outcome("json", "missing", <<>>, r) : r \in BOOLEAN}
    \* the reasoning field passes through untouched by the names: it is
    \* left out only next to the shortest lists
    \cup {Outcome("json", "names", ns, TRUE) :
            ns \in SeqsUpTo(ResponseNames, MaxRespLen) \cup {ReversedPoolNames(lists)}}
    \cup {Outcome("json", "names", ns, FALSE) : ns \in SeqsUpTo(ResponseNames, 1)}

FailSets == (SUBSET (1..MaxFailRow)) \cup {1..MaxVenues}

\* the pipeline before any run, in the specifications of the other parts
PipelineIdle ==
    /\ csv = <<>> /\ event = <<>> /\ embedding_csv = NoFile /\ pc = "start"
    /\ df = NoneFrame /\ crit = 1 /\ top_matches = NoMatches
    /\ all_selected_venues = {} /\ embed_failed = {} /\ repeats = {}
    /\ provider = NoOutcome /\ result = NoResult

Init ==
    /\ csv \in Catalogs
    /\ event \in Events
    /\ embedding_csv = NoFile
    /\ pc = "start"
    /\ df = NoneFrame
    /\ crit = 1
    /\ top_matches = NoMatches
    /\ all_selected_venues = {}
    /\ embed_failed = {}
    /\ repeats = {}
    /\ provider = NoOutcome
    /\ result = NoResult
    /\ QueriesIdle /\ StagesIdle /\ LoadsIdle /\ MailIdle /\ SelectionIdle /\ ClientIdle /\ OutreachIdle /\ RecsIdle

\* df = load_csv_data(csv_path); if df is None: return {"error": ...}
LoadCsvData ==
    /\ pc = "start"
    /\ \E readError \in BOOLEAN, fails \in FailSets :
         LET r == load_csv_data(csv, embedding_csv, fails, readError)
         IN  /\ df' = r.df
             /\ embedding_csv' = r.file
             /\ IF r.df.isNone
                THEN /\ result' = ErrorOnly("Failed to load restaurant data.")
                     /\ pc' = "done"
                     /\ top_matches' = top_matches
                ELSE /\ result' = result
                     /\ pc' = "ranking"
                     /\ top_matches' = [isNone |-> FALSE, lists |-> <<>>]
    /\ crit' = 1
    /\ all_selected_venues' = {}
    /\ UNCHANGED <<csv, event, embed_failed, repeats, provider>>
    /\ UNCHANGED notPipeline

\* queries = create_search_queries(event_details), then one iteration of
\* `for criterion, query in queries.items()` inside find_top_matches; an
\* exception in either ends find_top_matches with None, and
\* find_best_restaurants returns {"error": "Failed to find top matches."}
FindTopMatches ==
    /\ pc = "ranking"
    /\ LET criterion == Criteria[crit]
           queries == create_search_queries(event)
       IN  IF queries.raised
           THEN /\ top_matches' = NoMatches
                /\ result' = ErrorOnly("Failed to find top matches.")
                /\ pc' = "done"
                /\ UNCHANGED <<crit, all_selected_venues, repeats, embed_failed>>
           ELSE \E ok \in {b \in BOOLEAN : b \/ Cardinality(embed_failed) < MaxQueryFailures} :
                  LET qe == generate_embedding(TextKey(queries.queries[criterion]), ok)
                  IN  /\ embed_failed' = IF ok THEN embed_failed
                                         ELSE embed_failed \cup {criterion}
                      /\ IF ScoringRaises(df.rows, qe)
                         THEN /\ top_matches' = NoMatches
                              /\ result' = ErrorOnly("Failed to find top matches.")
                              /\ pc' = "done"
                              /\ UNCHANGED <<crit, all_selected_venues, repeats>>
                         ELSE LET st == SelectMatches(df.rows, criterion, qe,
                                                      all_selected_venues)
                              IN  /\ top_matches' =
                                        [isNone |-> FALSE,
                                         lists |-> Append(top_matches.lists, st.diverse)]
                                  /\ all_selected_venues' = st.allsel
                                  /\ repeats' = repeats \cup st.log
                                  /\ crit' = crit + 1
                                  /\ pc' = IF crit = Len(Criteria) THEN "ranked"
                                           ELSE "ranking"
                                  /\ result' = result
    /\ UNCHANGED <<csv, event, embedding_csv, df, provider>>
    /\ UNCHANGED notPipeline

\* stage1_result = get_top_restaurants(top_matches, event_details); return it
GetTopRestaurants ==
    /\ pc = "ranked"
    /\ \E out \in Outcomes(top_matches.lists) :
         /\ provider' = out
         /\ result' = get_top_restaurants(top_matches.lists, out)
    /\ pc' = "done"
    /\ UNCHANGED <<csv, event, embedding_csv, df, crit, top_matches,
                   all_selected_venues, embed_failed, repeats>>
    /\ UNCHANGED notPipeline

\* the next call of find_best_restaurants, for any event, with the files as
\* the previous runs left them
NewRun ==
    /\ pc = "done"
    /\ pc' = "start"
    /\ event' \in Events
    /\ df' = NoneFrame
    /\ crit' = 1
    /\ top_matches' = NoMatches
    /\ all_selected_venues' = {}
    /\ embed_failed' = {}
    /\ repeats' = {}
    /\ provider' = NoOutcome
    /\ result' = NoResult
    /\ UNCHANGED <<csv, embedding_csv>>
    /\ UNCHANGED notPipeline

Next == LoadCsvData \/ FindTopMatches \/ GetTopRestaurants \/ NewRun

Spec == Init /\ [][Next]_vars

----------------------------------------------------------------------------
(* Vocabulary of the properties *)

\* the candidate pool get_top_restaurants was given
Pool == Flatten(top_matches.lists, 1)
PoolNames == {Pool[i].name : i \in 1..Len(Pool)}

\* the highest score a name has in the pool, and where the pool first shows
\* the name with that score
BestScore(name) ==
    CHOOSE m \in {Pool[i].score : i \in {k \in 1..Len(Pool) : Pool[k].name = name}} :
        \A i \in 1..Len(Pool) : Pool[i].name = name => Pool[i].score <= m
FirstBest(name) ==
    LET best == BestScore(name)
        at == {i \in 1..Len(Pool) : Pool[i].name = name /\ Pool[i].score = best}
    IN  CHOOSE i \in at : \A k \in at : i <= k

\* name a ranks strictly before name b: a higher best score, or the same
\* best score and an earlier first appearance with it
RanksBefore(a, b) ==
    LET sa == BestScore(a)
        sb == BestScore(b)
    IN  sa > sb \/ (sa = sb /\ FirstBest(a) < FirstBest(b))

\* get_top_restaurants has returned in this run
Stage1Returned == pc = "done" /\ provider.kind # "none"

\* the provider call or the parse of its output failed
ProviderFailed == provider.kind \in {"api_error", "malformed"}

\* the provider failed, or answered a JSON object whose selected_restaurants,
\* when present, is a list of names
FailedOrListOfNames == ProviderFailed \/ provider.selected \in {"names", "missing"}

IsShortlist(r) == r.has_top /\ r.has_reasoning /\ ~r.has_error

TopNames == [i \in 1..Len(result.top_restaurants) |-> result.top_restaurants[i].name]

----------------------------------------------------------------------------
(* C1: with a pool of at least 15 distinct names, get_top_restaurants
   returns exactly 15 entries whether the provider fails, returns malformed
   output, or succeeds with any list of names. *)
C1_ShortlistSize ==
    (Stage1Returned /\ FailedOrListOfNames /\ Cardinality(PoolNames) >= ShortlistSize)
        => (result.has_top /\ Len(result.top_restaurants) = ShortlistSize)

\* a provider success with a non-empty list of names over a pool of 15 or more
C1_Witness ==
    /\ Stage1Returned
    /\ provider.kind = "json" /\ provider.selected = "names" /\ Len(provider.names) > 0
    /\ Cardinality(PoolNames) >= ShortlistSize
    /\ Len(result.top_restaurants) = ShortlistSize

(* C2: when the provider call fails, the shortlist is the pool's 15
   highest-scored distinct names (all of them when there are fewer), in
   descending score order, equal scores in order of first appearance in the
   flattened pool. *)
C2_FallbackIsTopByScore ==
    (Stage1Returned /\ ProviderFailed) =>
        LET top == result.top_restaurants
            n == Len(top)
        IN  /\ n = Min(ShortlistSize, Cardinality(PoolNames))
            \* every entry is the highest-scored pool record of its name
            /\ \A i \in 1..n :
                  /\ top[i].name \in PoolNames
                  /\ top[i] = Pool[FirstBest(top[i].name)]
            \* each entry ranks strictly before the next one, which also
            \* makes the names distinct
            /\ \A i \in 1..(n - 1) : RanksBefore(top[i].name, top[i + 1].name)
            \* every name left out ranks after the last entry
            /\ \A name \in PoolNames \ {top[i].name : i \in 1..n} :
                  RanksBefore(top[n].name, name)

\* a failed provider call over a pool with more than 15 names, whose order
\* of appearance is not its score order
C2_Witness ==
    /\ Stage1Returned /\ provider.kind = "api_error"
    /\ Cardinality(PoolNames) > ShortlistSize
    /\ \E i, j \in 1..Len(Pool) : i < j /\ Pool[i].score < Pool[j].score
    /\ Len(result.top_restaurants) = ShortlistSize

(* C5: get_top_restaurants always returns a Shortlist (venues and reasoning,
   no error), for a failed call, malformed output and every list of names;
   the Shortlist has fewer than 15 entries only if the pool has fewer than
   15 distinct names. *)
C5_AlwaysAShortlist ==
    (Stage1Returned /\ FailedOrListOfNames) =>
        /\ IsShortlist(result)
        /\ Len(result.top_restaurants) < ShortlistSize
              => Cardinality(PoolNames) < ShortlistSize

\* a short Shortlist from a small pool, after malformed provider output
C5_Witness ==
    /\ Stage1Returned /\ provider.kind = "malformed"
    /\ IsShortlist(result)
    /\ Len(result.top_restaurants) \in 1..(ShortlistSize - 1)
    /\ Cardinality(PoolNames) = Len(result.top_restaurants)

----------------------------------------------------------------------------
(* Vocabulary of the ranking properties *)

\* create_search_queries returned the queries of the run's event
QueriesBuilt == ~create_search_queries(event).raised

\* find_top_matches has processed, or tried to process, a criterion
RankingAttempted == ~df.isNone /\ QueriesBuilt /\ (crit > 1 \/ pc = "done")

\* rows of the DataFrame without an embedding vector (None or NaN)
MissingRows == {i \in 1..Len(df.rows) : df.rows[i].embedding.kind # "vec"}
ScorableRows == {i \in 1..Len(df.rows) : df.rows[i].embedding.kind = "vec"}

ListNames(list) == {list[i].name : i \in 1..Len(list)}

(* C3: when the embedding call fails for one criterion's query, that
   criterion's list is empty and find_top_matches still returns the lists of
   the other criteria. *)
C3_FailedLabelIsEmpty ==
    (RankingAttempted /\ embed_failed # {}) =>
        /\ ~top_matches.isNone
        /\ \A k \in 1..Len(top_matches.lists) :
              Criteria[k] \in embed_failed => top_matches.lists[k] = <<>>

(* C4: find_best_restaurants returns an error result only when the catalog
   load failed; a failed embedding call or a failed text-generation call
   gives a valid result with venues and reasoning. *)
C4_ErrorOnlyOnLoadFailure ==
    (pc = "done" /\ QueriesBuilt /\ FailedOrListOfNames /\ result.has_error) => df.isNone

(* C6: a name already selected by an earlier criterion is added to a later
   criterion's list only when the candidates no criterion has selected yet
   are fewer than the slots still open in that list. *)
C6_RepeatOnlyWhenShort ==
    \A r \in repeats : r.criterion # "overall" => r.remaining < r.slots

(* C7, as claimed: names selected under overall are not added to the
   cross-criterion set (a name of overall's list is in the set only if a
   later criterion selected it). *)
C7_OverallOutsideSelectedSet ==
    (~top_matches.isNone /\ Len(top_matches.lists) >= 1) =>
        \A n \in ListNames(top_matches.lists[1]) :
            n \in all_selected_venues
                => \E k \in 2..Len(top_matches.lists) : n \in ListNames(top_matches.lists[k])

(* C7, amended: overall is never constrained by the cross-criterion set but
   does contribute to it: every name selected under overall is in the set,
   and a later criterion that lists such a name added it as an
   already-selected name. *)
C7_OverallFeedsSelectedSet ==
    (~top_matches.isNone /\ Len(top_matches.lists) >= 1) =>
        /\ ListNames(top_matches.lists[1]) \subseteq all_selected_venues
        /\ \A r \in repeats : r.criterion # "overall"
        /\ \A k \in 2..Len(top_matches.lists) :
              ListNames(top_matches.lists[k]) \cap ListNames(top_matches.lists[1]) # {}
                  => \E r \in repeats : r.criterion = Criteria[k]

\* overall selected names, and a later criterion repeats one of them
C7_Witness ==
    /\ ~top_matches.isNone /\ Len(top_matches.lists) >= 2
    /\ top_matches.lists[1] # <<>>
    /\ ListNames(top_matches.lists[2]) \cap ListNames(top_matches.lists[1]) # {}
    /\ \E r \in repeats : r.criterion = Criteria[2]

(* C8: a parsed response without the selected_restaurants field or without
   the reasoning field gives the fallback of a provider failure: the top 15
   distinct names by score and the fixed fallback reasoning. *)
C8_MissingFieldIsFallback ==
    (/\ Stage1Returned /\ provider.kind = "json" /\ provider.selected # "not_a_list"
     /\ (provider.selected = "missing" \/ ~provider.has_reasoning))
        => /\ result.selection_reasoning = FallbackReasoning
           /\ TopNames = FallbackNames(Pool)

(* C9: a venue whose embedding is null or missing at scoring time is
   skipped: no list holds it, and the other venues are still scored and
   ranked. *)
C9_MissingEmbeddingSkipped ==
    (RankingAttempted /\ embed_failed = {} /\ MissingRows # {}) =>
        /\ ~top_matches.isNone
        /\ \A k \in 1..Len(top_matches.lists) :
              /\ \A i \in 1..Len(top_matches.lists[k]) :
                    top_matches.lists[k][i].id + 1 \notin MissingRows
              /\ ScorableRows # {} => top_matches.lists[k] # <<>>

(* C10: with a catalog of 0 venues find_best_restaurants returns an error
   result whose list of venues is empty. *)
C10_EmptyCatalogIsError ==
    (pc = "done" /\ QueriesBuilt /\ ~df.isNone /\ Len(df.rows) = 0) =>
        /\ result.has_error
        /\ result.has_top /\ result.top_restaurants = <<>>

(* C15: load_csv_data writes the embeddings file only when at least one
   venue's embedding was computed during that load; a load that produced no
   embedding writes nothing. *)
C15_PersistOnlyFreshEmbeddings ==
    [][embedding_csv' # embedding_csv
          => \E i \in 1..Len(df'.rows) : df'.rows[i].embedding.kind = "vec"]_vars

----------------------------------------------------------------------------
(* Vocabulary of the properties of the lists find_top_matches returns *)

\* rows of the DataFrame that the loop over df.iterrows() scores
ScoredRows == {i \in 1..Len(df.rows) : df.rows[i].embedding.kind # "None"}
ScoredNames == {df.rows[i].name : i \in ScoredRows}

\* no name occurs twice in the list
DistinctNames(list) ==
    \A i, j \in 1..Len(list) : i < j => list[i].name # list[j].name

\* the list of scores is non-increasing
NonIncreasing(list) ==
    \A i \in 1..(Len(list) - 1) : list[i].score >= list[i + 1].score

(* C21: for every label find_top_matches processed, the list has exactly
   min(quota, number of distinct names among the scored venues) entries, the
   quota being 25 for overall and 5 for every other label, and no name
   occurs twice within one list. *)
C21_QuotaAndDistinct ==
    \A k \in 1..Len(top_matches.lists) :
        /\ Len(top_matches.lists[k])
              = Min(num_matches(Criteria[k]), Cardinality(ScoredNames))
        /\ DistinctNames(top_matches.lists[k])

\* a later label's list is full although two scored rows share a name and
\* the diversity pass had passed over names selected earlier: the fill pass
\* supplied the last entry
C21_Witness ==
    /\ Len(top_matches.lists) >= 2
    /\ Cardinality(ScoredNames) < Cardinality(ScoredRows)
    /\ Len(top_matches.lists[2]) = CriterionMatches
    /\ ~NonIncreasing(top_matches.lists[2])

\* the embedding of the overall query of the run's event
OverallQuery ==
    generate_embedding(TextKey(create_search_queries(event).queries["overall"]), TRUE)

\* the order in which the sorted similarities hold two rows: higher score
\* first, equal scores in catalog order
RowBefore(score, i, j) ==
    score[i] > score[j] \/ (score[i] = score[j] /\ i < j)

(* C22: the list returned for overall is exactly the first 25
   distinct-named scorable venues of the catalog in descending score order,
   venues of equal score in catalog order. *)
C22_OverallIsTopByScore ==
    Len(top_matches.lists) >= 1 =>
        LET overall == top_matches.lists[1]
            n == Len(overall)
            qe == OverallQuery
            rows == df.rows
            scored == ScoredRows
            score == [i \in scored |-> cosine_similarity(qe.v, rows[i].embedding.v)]
            row == [i \in 1..n |-> overall[i].id + 1]
            listed == ListNames(overall)
        IN  /\ n = Min(OverallMatches, Cardinality(ScoredNames))
            \* every entry is the first row of its name in the sorted order
            /\ \A i \in 1..n :
                  /\ row[i] \in scored
                  /\ overall[i].name = rows[row[i]].name
                  /\ overall[i].score = score[row[i]]
                  /\ \A r \in scored \ {row[i]} :
                        rows[r].name = overall[i].name => RowBefore(score, row[i], r)
            \* the entries are in the sorted order
            /\ \A i \in 1..(n - 1) : RowBefore(score, row[i], row[i + 1])
            \* every name left out comes after the last entry
            /\ \A r \in scored :
                  rows[r].name \notin listed => RowBefore(score, row[n], r)

\* an overall list of 25 out of more names, two scored rows sharing a name,
\* with neighbours of equal score
C22_Witness ==
    /\ Len(top_matches.lists) >= 1
    /\ Len(top_matches.lists[1]) = OverallMatches
    /\ Cardinality(ScoredNames) > OverallMatches
    /\ Cardinality(ScoredNames) < Cardinality(ScoredRows)
    /\ \E i \in 1..(OverallMatches - 1) :
          top_matches.lists[1][i].score = top_matches.lists[1][i + 1].score

(* C27: for every label the list find_top_matches returns is in
   non-increasing score order: the diversity pass followed by the fill pass
   never places a lower-scored venue before a higher-scored one. *)
C27_NonIncreasingPerLabel ==
    \A k \in 1..Len(top_matches.lists) : NonIncreasing(top_matches.lists[k])

----------------------------------------------------------------------------
(* Properties of the pool and of name resolution in get_top_restaurants *)

\* venue_dict as get_top_restaurants builds it from the lists it was given
VenueDict == BuildVenueDict(Pool, 1, <<>>)

\* the highest score the records of a name have in a list of records
BestIn(records, name) ==
    LET scores == {records[i].score :
                     i \in {k \in 1..Len(records) : records[k].name = name}}
    IN  CHOOSE m \in scores : \A x \in scores : x <= m

(* C23: flattening the per-label lists into the pool keeps a name that
   occurs under several labels once, and the kept instance is one with the
   highest score among that name's occurrences. *)
C23_PoolKeepsBestPerName ==
    Stage1Returned =>
        LET all_venues == Pool
            venue_dict == VenueDict
            top == result.top_restaurants
        IN  /\ DistinctNames(venue_dict)
            /\ ListNames(venue_dict) = ListNames(all_venues)
            /\ \A j \in 1..Len(venue_dict) :
                  /\ \E i \in 1..Len(all_venues) : all_venues[i] = venue_dict[j]
                  /\ venue_dict[j].score = BestIn(all_venues, venue_dict[j].name)
            \* and the instance the Shortlist shows for a name is the kept one
            /\ \A i \in 1..Len(top) : top[i].score = BestIn(all_venues, top[i].name)

\* the provider names a venue whose first occurrence in the pool has a lower
\* score than a later one, and the Shortlist shows it
C23_Witness ==
    /\ Stage1Returned
    /\ provider.kind = "json" /\ provider.selected = "names"
    /\ \E n \in 1..Len(provider.names) :
          /\ \E i, j \in 1..Len(Pool) :
                /\ i < j
                /\ Pool[i].name = provider.names[n] /\ Pool[j].name = provider.names[n]
                /\ Pool[i].score < Pool[j].score
          /\ \E i \in 1..Len(result.top_restaurants) :
                result.top_restaurants[i].name = provider.names[n]

\* one name contains the other, compared in lower case
LooseMatch(a, b) ==
    IsSubstring(Lower(a), Lower(b)) \/ IsSubstring(Lower(b), Lower(a))

\* the names i..n of the response account for the entries of top from
\* position p on, one entry per name that matches a pool record: the record
\* of exactly that name when there is one, otherwise a record matching it
\* loosely; a name matching no record takes no position
RECURSIVE ResolvedInOrder(_, _, _, _, _, _)
ResolvedInOrder(names, n, i, top, p, records) ==
    IF i > n THEN TRUE
    ELSE LET rn == names[i]
             exact == \E k \in 1..Len(records) : records[k].name = rn
             loose == \E k \in 1..Len(records) : LooseMatch(rn, records[k].name)
         IN  IF exact \/ loose
             THEN /\ p <= Len(top)
                  /\ \E k \in 1..Len(records) : records[k] = top[p]
                  /\ IF exact THEN top[p].name = rn ELSE LooseMatch(rn, top[p].name)
                  /\ ResolvedInOrder(names, n, i + 1, top, p + 1, records)
             ELSE ResolvedInOrder(names, n, i + 1, top, p, records)

\* the provider answered a JSON object with a list of names
ProviderNamed == Stage1Returned /\ provider.kind = "json" /\ provider.selected = "names"

(* C24, as claimed: each name the provider returned resolves to the pool
   record of exactly that name when one exists, otherwise to a pool record
   whose name contains it or is contained in it, compared
   case-insensitively; a name matching no pool record is dropped and adds
   nothing to the shortlist. *)
C24_EveryNameResolves ==
    ProviderNamed =>
        ResolvedInOrder(provider.names, Len(provider.names), 1,
                        result.top_restaurants, 1, Pool)

(* C24, amended: each of the first 15 names the provider returned resolves
   in that way; names after the fifteenth are not looked at. *)
C24_FirstFifteenNamesResolve ==
    ProviderNamed =>
        ResolvedInOrder(provider.names, Min(Len(provider.names), ShortlistSize), 1,
                        result.top_restaurants, 1, Pool)

\* a response with a name that matches no record exactly but matches one
\* loosely, followed by a name that matches nothing and by an exact one
C24_Witness ==
    /\ ProviderNamed
    /\ \E i, j \in 1..Len(provider.names) :
          /\ provider.names[i] \notin PoolNames
          /\ \E name \in PoolNames : LooseMatch(provider.names[i], name)
          /\ \A name \in PoolNames : ~LooseMatch(provider.names[j], name)
    /\ Len(result.top_restaurants) >= 2

\* names of the first n entries of a list of records
NamesUpTo(list, n) == {list[i].name : i \in 1..n}

(* C25: when name resolution yields fewer than 15 records, the shortlist is
   topped up with pool venues in descending score order, skipping every name
   already in the shortlist, until it has 15 entries or every pool name is
   present; the resolved entries stay ahead of the topped-up ones. *)
C25_TopUpByScore ==
    (Stage1Returned /\ provider.kind = "json" /\ provider.selected # "not_a_list") =>
        LET all_venues == Pool
            names == provider.names
            top == result.top_restaurants
            n == Len(top)
            pool_size == Len(all_venues)
            listed == ListNames(top)
            \* the names of the response that resolve to a record
            resolving == {i \in 1..Min(Len(names), ShortlistSize) :
                            \E k \in 1..pool_size :
                                LooseMatch(names[i], all_venues[k].name)}
            r == Cardinality(resolving)
            \* where the pool first holds the record of entry i
            at == [i \in (r + 1)..n |->
                     IF \E k \in 1..pool_size : all_venues[k] = top[i]
                     THEN CHOOSE k \in 1..pool_size :
                              /\ all_venues[k] = top[i]
                              /\ \A j \in 1..(k - 1) : all_venues[j] # top[i]
                     ELSE 0]
            \* pool record k comes after entry i in descending score order,
            \* equal scores in pool order
            after(k, i) ==
                \/ all_venues[k].score < top[i].score
                \/ all_venues[k].score = top[i].score /\ k > at[i]
        IN  /\ r <= n
            /\ r < ShortlistSize =>
                  \* as many as the pool allows
                  /\ n = ShortlistSize \/ ListNames(all_venues) \subseteq listed
                  /\ \A i \in (r + 1)..n :
                        \* the best instance of a pool venue
                        /\ at[i] # 0
                        /\ \A k \in 1..pool_size :
                              (all_venues[k].name = top[i].name /\ k # at[i])
                                  => after(k, i)
                        \* whose name is not in the shortlist yet
                        /\ top[i].name \notin NamesUpTo(top, i - 1)
                        \* in descending score order
                        /\ i < n => after(at[i + 1], i)
                  \* ahead of every venue left out
                  /\ n > r =>
                        \A k \in 1..pool_size :
                            all_venues[k].name \notin listed => after(k, n)
            /\ r >= ShortlistSize => n = r

\* one to fourteen names resolved, and the top-up filled the shortlist to 15
\* from a pool with more names
C25_Witness ==
    /\ ProviderNamed
    /\ Cardinality({i \in 1..Len(provider.names) :
                      \E name \in PoolNames : LooseMatch(provider.names[i], name)})
          \in 1..(ShortlistSize - 1)
    /\ Len(result.top_restaurants) = ShortlistSize
    /\ Cardinality(PoolNames) > ShortlistSize

(* C26: the Shortlist get_top_restaurants returns never holds two entries
   with the same venue name, whatever names the provider returns, a name
   repeated in the response and two names resolving to one pool record
   included. *)
C26_NoDuplicateNames ==
    (Stage1Returned /\ FailedOrListOfNames) => DistinctNames(result.top_restaurants)

----------------------------------------------------------------------------
(* A run over the persisted catalog *)

\* rows of a DataFrame read back from the embeddings file whose embedding
\* field was written empty, because the embedding call of the load that
\* wrote the file had failed for them
ReloadedGaps == {i \in 1..Len(df.rows) : df.rows[i].embedding.kind = "NaN"}

(* C28: after a load_csv_data in which embedding generation failed for some
   venue and the catalog was persisted, a later run that loads the persisted
   catalog still treats that venue as having no embedding: find_top_matches
   skips it and returns ranked lists built from the other venues. *)
C28_ReloadedGapSkipped ==
    (/\ ~df.isNone /\ QueriesBuilt /\ embed_failed = {}
     /\ ReloadedGaps # {}
     /\ (crit > 1 \/ pc = "done")) =>
        /\ ~top_matches.isNone
        /\ \A k \in 1..Len(top_matches.lists) :
              /\ \A i \in 1..Len(top_matches.lists[k]) :
                    top_matches.lists[k][i].id + 1 \notin ReloadedGaps
              /\ Len(top_matches.lists[k])
                    = Min(num_matches(Criteria[k]),
                          Cardinality({df.rows[i].name : i \in ScorableRows}))

----------------------------------------------------------------------------
(* Stage 1 and Stage 2 as invocations: prompt, request, return *)

\* the lists find_top_matches returns for a catalog of n venues whose
\* embedding calls all succeeded
RECURSIVE RankAll(_, _, _, _)
RankAll(rows, queries, k, allsel) ==
    IF k > Len(Criteria) THEN <<>>
    ELSE LET qe == generate_embedding(TextKey(queries[Criteria[k]]), TRUE)
             st == SelectMatches(rows, Criteria[k], qe, allsel)
         IN  <<st.diverse>> \o RankAll(rows, queries, k + 1, st.allsel)

StageCatalogSizes == {1, 3}

StageLists ==
    {RankAll(load_csv_data(Catalog(n, FALSE), NoFile, {}, FALSE).df.rows,
             create_search_queries(ev).queries, 1, {}) :
        n \in StageCatalogSizes,
        ev \in {e \in Events : ~create_search_queries(e).raised}}

\* str(venue_data['name']) and str(venue_index) as tokens of a text
NameText(venue) == ToString(venue.name)
IndexText(index) == ToString(index)

ConfidenceMarker == "**Confidence Score:**"
ErrorMarker == "**Error Details:**"

\* the recommendation in the format the prompt asks for, as some providers
\* send it: with blank lines around it
FormattedText(venue, index) ==
    <<" ", "### ", IndexText(index), ". ", NameText(venue),
      "**Why it's perfect for your event:**", "**Meeting Space:**",
      "**Food & Beverage:**", "**Considerations:**", ConfidenceMarker, " 8/10", " ">>

\* what client.chat.completions.create of Stage 2 comes back with:
\*   kind "api_error"     the call raises;
\*   kind "null_content"  message.content is None;
\*   kind "content"       message.content is the text, whatever it says;
\* and kind "prompt_error": building the prompt raised (json.dumps of a
\* venue field it cannot serialize), no call was made
Stage2Response(kind, text) == [kind |-> kind, text |-> text]

Stage2Responses(venue, index) ==
    {Stage2Response("api_error", <<>>), Stage2Response("null_content", <<>>)}
    \cup {Stage2Response("content", t) :
            t \in {FormattedText(venue, index),
                   <<"I'm sorry, I can't help with that.">>,
                   <<"### ", IndexText(index), ". ", NameText(venue), "A fine venue.">>,
                   <<>>}}

\* str(e) of the exception the except branch caught
ErrorDetail(resp) ==
    CASE resp.kind = "api_error" -> "Connection error."
      [] resp.kind = "null_content" -> "'NoneType' object has no attribute 'strip'"
      [] OTHER -> "Object of type int64 is not JSON serializable"

\* ErrorNarrative without the display position
ErrorNarrativeNoPosition(venue, index, detail) ==
    <<" ", "### ", ". ", NameText(venue),
      "*Error: Could not generate detailed recommendation for this venue.*",
      ErrorMarker, " ", detail, " ">>

\* the f-string the except branch returns (it is not stripped)
ErrorNarrative(venue, index, detail) ==
    <<" ", "### ", IndexText(index), ". ", NameText(venue),
      "*Error: Could not generate detailed recommendation for this venue.*",
      ErrorMarker, " ", detail, " ">>

\* generate_venue_recommendation(venue_data, event_details, venue_index) for
\* one response.  venue_data is an entry of Stage 1's top_restaurants, which
\* always has the key 'name', so the handler's own venue_data['name'] does
\* not raise.
generate_venue_recommendation(venue, index, resp) ==
    IF resp.kind = "content"
    THEN [raised |-> FALSE, text |-> Strip(resp.text)]
    ELSE [raised |-> FALSE, text |-> ErrorNarrative(venue, index, ErrorDetail(resp))]

\* get_venue_recommendation: the wrapper
get_venue_recommendation(venue, index, resp) ==
    generate_venue_recommendation(venue, index, resp)

\* the request came back as a failure of the provider call
CallFailed(stg, resp) ==
    IF stg = 1 THEN resp.kind \in {"api_error", "malformed"}
    ELSE resp.kind \in {"api_error", "null_content"}

\* Retry that issues the request once more after a failed call
RetryOnce(stg, resp, n) == CallFailed(stg, resp) /\ n < 2

\* whether the invocation issues its request again after a response: both
\* except branches fall through to the fallback, neither call is in a loop
Retry(stg, resp, n) == FALSE

NoResponse == [kind |-> "none"]

InitStages ==
    /\ stage = 0 /\ stage_pc = "idle"
    /\ stage_lists \in StageLists
    /\ venue_data = <<>> /\ venue_index = 0
    /\ requests = 0 /\ response = NoResponse /\ stage_result = <<>>
    /\ recommended_venues = <<>>
    /\ PipelineIdle /\ QueriesIdle /\ LoadsIdle /\ MailIdle /\ SelectionIdle /\ ClientIdle /\ OutreachIdle /\ RecsIdle

notStages == <<pipelineVars, queryVars, loadVars, mailVars, selectionVars, clientVars, outreachVars, recVars>>

\* get_top_restaurants(top_matches, event_details) is called
InvokeStage1 ==
    /\ stage_pc \in {"idle", "returned"}
    /\ stage' = 1 /\ stage_pc' = "request"
    /\ requests' = 0 /\ response' = NoResponse /\ stage_result' = <<>>
    /\ recommended_venues' = <<>>
    /\ UNCHANGED <<stage_lists, venue_data, venue_index>>
    /\ UNCHANGED notStages

\* Stage 1's client.chat.completions.create and json.loads
RequestStage1 ==
    /\ stage = 1 /\ stage_pc = "request"
    /\ requests' = requests + 1
    /\ response' \in Outcomes(stage_lists)
    /\ stage_pc' = "respond"
    /\ UNCHANGED <<stage, stage_lists, venue_data, venue_index, stage_result,
                   recommended_venues>>
    /\ UNCHANGED notStages

\* the rest of get_top_restaurants, up to its return
ReturnStage1 ==
    /\ stage = 1 /\ stage_pc = "respond"
    /\ IF Retry(1, response, requests)
       THEN /\ stage_pc' = "request"
            /\ UNCHANGED <<stage_result, recommended_venues>>
       ELSE /\ stage_pc' = "returned"
            /\ stage_result' = get_top_restaurants(stage_lists, response)
            /\ recommended_venues' = stage_result'.top_restaurants
    /\ UNCHANGED <<stage, stage_lists, venue_data, venue_index, requests, response>>
    /\ UNCHANGED notStages

\* get_venue_recommendation(venue, event_details, idx) is called for a venue
\* of the shortlist; the prompt is built, which json.dumps may fail
InvokeStage2 ==
    /\ stage_pc = "returned"
    /\ \E i \in 1..Min(Len(recommended_venues), MaxDescribed), serializable \in BOOLEAN :
         /\ venue_index' = i
         /\ venue_data' = recommended_venues[i]
         /\ IF serializable
            THEN stage_pc' = "request" /\ response' = NoResponse
            ELSE stage_pc' = "respond" /\ response' = Stage2Response("prompt_error", <<>>)
    /\ stage' = 2 /\ requests' = 0 /\ stage_result' = <<>>
    /\ UNCHANGED <<stage_lists, recommended_venues>>
    /\ UNCHANGED notStages

\* Stage 2's client.chat.completions.create
RequestStage2 ==
    /\ stage = 2 /\ stage_pc = "request"
    /\ requests' = requests + 1
    /\ response' \in Stage2Responses(venue_data, venue_index)
    /\ stage_pc' = "respond"
    /\ UNCHANGED <<stage, stage_lists, venue_data, venue_index, stage_result,
                   recommended_venues>>
    /\ UNCHANGED notStages

\* recommendation.strip() or the except branch, up to the return
ReturnStage2 ==
    /\ stage = 2 /\ stage_pc = "respond"
    /\ IF Retry(2, response, requests)
       THEN stage_pc' = "request" /\ UNCHANGED stage_result
       ELSE /\ stage_pc' = "returned"
            /\ stage_result' = get_venue_recommendation(venue_data, venue_index, response)
    /\ UNCHANGED <<stage, stage_lists, venue_data, venue_index, requests, response,
                   recommended_venues>>
    /\ UNCHANGED notStages

NextStages ==
    \/ InvokeStage1 \/ RequestStage1 \/ ReturnStage1
    \/ InvokeStage2 \/ RequestStage2 \/ ReturnStage2

SpecStages == InitStages /\ [][NextStages]_vars

\* `tok in text`
Contains(text, tok) == \E i \in 1..Len(text) : text[i] = tok

Stage1Invoked == stage = 1 /\ stage_pc = "returned"
Stage2Invoked == stage = 2 /\ stage_pc = "returned"

(* C11: generate_venue_recommendation always returns a string that holds
   the venue's name and the "Confidence Score" marker when the provider call
   succeeded, or the venue's name and the "Error Details" marker when it
   failed; never a string with neither marker. *)
C11_NameAndMarker ==
    Stage2Invoked =>
        /\ ~stage_result.raised
        /\ Contains(stage_result.text, NameText(venue_data))
        /\ IF response.kind = "content"
           THEN Contains(stage_result.text, ConfidenceMarker)
           ELSE Contains(stage_result.text, ErrorMarker)

(* C12: when the provider call or any other step of Stage 2 fails,
   generate_venue_recommendation does not raise: it returns the error
   narrative, which opens with the heading of the venue's display position
   and name and carries the error detail after the "Error Details" marker. *)
C12_FailureIsErrorNarrative ==
    (Stage2Invoked /\ response.kind # "content") =>
        /\ ~stage_result.raised
        /\ SubSeq(stage_result.text, 2, 5)
              = <<"### ", IndexText(venue_index), ". ", NameText(venue_data)>>
        /\ \E i \in 1..(Len(stage_result.text) - 2) :
              /\ stage_result.text[i] = ErrorMarker
              /\ stage_result.text[i + 2] = ErrorDetail(response)
        /\ ~Contains(stage_result.text, ConfidenceMarker)

\* the provider call raised for the second venue of a shortlist
C12_Witness ==
    /\ Stage2Invoked /\ response.kind = "api_error" /\ venue_index = 2
    /\ Contains(stage_result.text, ErrorMarker)

(* C17: an invocation of get_top_restaurants or of
   generate_venue_recommendation issues at most one chat-completion request;
   when that request fails the invocation returns its fallback (Stage 1: the
   top names by score with the fallback reasoning; Stage 2: the error
   narrative) having issued exactly that one request. *)
C17_SingleShot ==
    /\ requests <= 1
    /\ (Stage1Invoked /\ CallFailed(1, response)) =>
          /\ requests = 1
          /\ stage_result.selection_reasoning = FallbackReasoning
          /\ [i \in 1..Len(stage_result.top_restaurants) |->
                 stage_result.top_restaurants[i].name]
                = FallbackNames(Flatten(stage_lists, 1))
    /\ (Stage2Invoked /\ CallFailed(2, response)) =>
          /\ requests = 1
          /\ Contains(stage_result.text, ErrorMarker)

\* both stages have been invoked and Stage 1's only request failed
C17_Witness ==
    /\ Stage1Invoked /\ response.kind = "api_error" /\ requests = 1
    /\ venue_index > 0
    /\ stage_result.selection_reasoning = FallbackReasoning

----------------------------------------------------------------------------
(* create_search_queries called repeatedly with one EventDescription *)

\* the optional fields and the values each is drawn from: absent, null,
\* empty or given
OptionalFields ==
    {"locations", "dietary_restrictions", "atmosphere", "address_proximity",
     "neighborhood_preference", "special_requirements"}

OptionalValues(f) ==
    CASE f = "locations" ->
            {Absent, Null, List(<<>>), List(<<"Boston">>), List(<<"Boston", "Chicago">>)}
      [] f = "dietary_restrictions" -> {Absent, Null, List(<<>>), List(<<"Vegan">>)}
      [] f = "atmosphere" -> {Absent, Null, Str(""), Str("quiet")}
      [] f = "address_proximity" -> {Absent, Null, Str("5th Avenue")}
      [] f = "neighborhood_preference" -> {Str(""), Str("SoHo")}
      [] OTHER -> {Absent, Null, Str("stage")}

\* event descriptions: any values of the optional fields, the other fields
\* all absent or all given
QueryEvents ==
    {[f \in Fields |->
        CASE f = "locations" -> loc
          [] f = "dietary_restrictions" -> diet
          [] f = "atmosphere" -> atm
          [] f = "address_proximity" -> addr
          [] f = "neighborhood_preference" -> hood
          [] f = "special_requirements" -> spec
          [] OTHER -> IF rest THEN FormDetails(<<>>, <<>>, "", "", FALSE)[f] ELSE Absent] :
        loc \in OptionalValues("locations"),
        diet \in OptionalValues("dietary_restrictions"),
        atm \in OptionalValues("atmosphere"),
        addr \in OptionalValues("address_proximity"),
        hood \in OptionalValues("neighborhood_preference"),
        spec \in OptionalValues("special_requirements"),
        rest \in BOOLEAN}

InitQueries ==
    /\ query_details \in QueryEvents
    /\ returned = <<>>
    /\ PipelineIdle /\ StagesIdle /\ LoadsIdle /\ MailIdle /\ SelectionIdle /\ ClientIdle /\ OutreachIdle /\ RecsIdle

notQueries == <<pipelineVars, stageVars, loadVars, mailVars, selectionVars, clientVars, outreachVars, recVars>>

\* queries = create_search_queries(event_details)
CreateSearchQueries ==
    /\ Len(returned) < MaxCalls
    /\ returned' = Append(returned, create_search_queries(query_details))
    /\ UNCHANGED query_details
    /\ UNCHANGED notQueries

\* the caller changes one optional field of the event description
NewEvent ==
    /\ returned # <<>>
    /\ \E f \in OptionalFields : \E v \in OptionalValues(f) :
         query_details' = [query_details EXCEPT ![f] = v]
    /\ returned' = <<>>
    /\ UNCHANGED notQueries

NextQueries == CreateSearchQueries \/ NewEvent

SpecQueries == InitQueries /\ [][NextQueries]_vars

\* an optional field that is absent, null or empty
Missing(x) == x.kind \in {"absent", "null"} \/ x = Str("") \/ x = List(<<>>)

\* the token that follows the literal `line` in a text ("" when none does)
After(text, line) ==
    IF \E i \in 1..(Len(text) - 1) : text[i] = line
    THEN text[(CHOOSE i \in 1..(Len(text) - 1) : text[i] = line) + 1]
    ELSE ""

(* C13: create_search_queries returns a mapping with exactly the six labels
   overall, meeting_rooms, food, location, atmosphere, budget, and two calls
   with the same EventDescription come back alike: the same text for every
   label. *)
C13_SixLabelsSameText ==
    \A i, j \in 1..Len(returned) :
        /\ returned[i].raised = returned[j].raised
        /\ ~returned[i].raised =>
              /\ DOMAIN returned[i].queries
                    = {"overall", "meeting_rooms", "food", "location", "atmosphere", "budget"}
              /\ \A label \in DOMAIN returned[i].queries :
                    /\ returned[i].queries[label] # <<>>
                    /\ returned[i].queries[label] = returned[j].queries[label]

\* two calls returned for an event with two locations and a desired atmosphere
C13_Witness ==
    /\ Len(returned) = 2 /\ ~returned[1].raised /\ ~returned[2].raised
    /\ query_details["locations"] = List(<<"Boston", "Chicago">>)
    /\ query_details["atmosphere"] = Str("quiet")
    /\ After(returned[2].queries["overall"], "- Desired Atmosphere: ") = "quiet"

(* C14: create_search_queries never throws, whatever optional fields are
   absent, empty or null, and renders each such field as its placeholder:
   "New York" for absent locations, "N/A" for the dietary restrictions, "No
   specific vibe stated" for the atmosphere, "No strict distance constraint
   specified." for the address and neighborhood, "None" for the special
   requirements. *)
C14_NeverThrows ==
    \A i \in 1..Len(returned) :
        LET overall == returned[i].queries["overall"]
            d == query_details
        IN  /\ ~returned[i].raised
            /\ d["locations"].kind = "absent"
                  => After(overall, "- Locations: ") = "New York"
            /\ Missing(d["dietary_restrictions"])
                  => After(overall, "- Dietary Restrictions: ") = "N/A"
            /\ Missing(d["atmosphere"])
                  => After(overall, "- Desired Atmosphere: ") = "No specific vibe stated"
            /\ (Missing(d["address_proximity"]) /\ Missing(d["neighborhood_preference"]))
                  => After(overall, "- Distance Query: ")
                        = "No strict distance constraint specified."
            /\ Missing(d["special_requirements"])
                  => After(overall, "- Other Special Requirements: ") = "None"

----------------------------------------------------------------------------
(* load_csv_data run by concurrent sessions: the steps that touch the files *)

Sessions == {1, 2}

NoLoader == [pc |-> "start", df |-> NoneFrame, pending |-> NoFile]

InitLoads ==
    /\ catalog \in {Catalog(n, FALSE) : n \in 1..MaxLoadRows}
    /\ store = NoFile
    /\ loader = [p \in Sessions |-> NoLoader]
    /\ persisted = {}
    /\ PipelineIdle /\ QueriesIdle /\ StagesIdle /\ MailIdle /\ SelectionIdle /\ ClientIdle /\ OutreachIdle /\ RecsIdle

notLoads == <<pipelineVars, queryVars, stageVars, mailVars, selectionVars, clientVars, outreachVars, recVars>>

\* if os.path.exists(embedding_csv_path)
CheckExists(p) ==
    /\ loader[p].pc = "start"
    /\ loader' = [loader EXCEPT ![p].pc = IF store.exists THEN "read" ELSE "embed"]
    /\ UNCHANGED <<catalog, store, persisted>>
    /\ UNCHANGED notLoads

\* the branch of an existing file: read_csv and json.loads of each cell
ReadEmbeddings(p) ==
    /\ loader[p].pc = "read"
    /\ loader' = [loader EXCEPT ![p].pc = "done",
                                ![p].df = load_csv_data(catalog, store, {}, FALSE).df]
    /\ UNCHANGED <<catalog, store, persisted>>
    /\ UNCHANGED notLoads

\* the branch of no file: read the original catalog and embed each row
EmbedRows(p) ==
    /\ loader[p].pc = "embed"
    /\ \E fails \in SUBSET (1..Len(catalog)) :
         LET r == load_csv_data(catalog, NoFile, fails, FALSE)
         IN  loader' = [loader EXCEPT ![p].pc = IF r.file.exists THEN "save" ELSE "done",
                                      ![p].df = r.df,
                                      ![p].pending = r.file]
    /\ UNCHANGED <<catalog, store, persisted>>
    /\ UNCHANGED notLoads

\* the embeddings a file holds, as (row, vector) pairs
Held(file) ==
    {<<i, file.rows[i].embedding.v>> :
        i \in {k \in 1..Len(file.rows) : file.rows[k].embedding.kind = "json"}}

\* df_to_save.to_csv(embedding_csv_path, index=False): the file is replaced
SaveEmbeddings(p) ==
    /\ loader[p].pc = "save"
    /\ store' = loader[p].pending
    /\ persisted' = persisted \cup Held(loader[p].pending)
    /\ loader' = [loader EXCEPT ![p].pc = "done"]
    /\ UNCHANGED catalog
    /\ UNCHANGED notLoads

\* the session's next run
NextLoad(p) ==
    /\ loader[p].pc = "done"
    /\ loader' = [loader EXCEPT ![p] = NoLoader]
    /\ UNCHANGED <<catalog, store, persisted>>
    /\ UNCHANGED notLoads

NextLoads ==
    \E p \in Sessions :
        \/ CheckExists(p) \/ ReadEmbeddings(p) \/ EmbedRows(p)
        \/ SaveEmbeddings(p) \/ NextLoad(p)

SpecLoads == InitLoads /\ [][NextLoads]_vars

(* C16: the catalog write is update-only and idempotent: after any sequence
   or interleaving of loads, concurrent ones with an embedding failure
   included, a venue whose embedding was once persisted still has that
   embedding in the persisted catalog. *)
C16_PersistedEmbeddingsStay ==
    persisted \subseteq Held(store)

----------------------------------------------------------------------------
(* EmailSystem.send_email *)

\* the `to` argument: None, a str given by its characters, or another object
NoneTo == [kind |-> "none", chars |-> <<>>]
StrTo(chars) == [kind |-> "str", chars |-> chars]
IntTo == [kind |-> "int", chars |-> <<>>]

Recipients ==
    {NoneTo, IntTo, StrTo(<<>>), StrTo(<<"v", "e", "n", "u", "e">>),
     StrTo(<<"a", "@", "b">>), StrTo(<<"@">>)}

\* html_body: None, the empty str or a document
HtmlBodies == {"None", "", "<html>"}

\* what service.users().messages().send(...).execute() does: returns the
\* message resource, returns a dict without 'id', or raises
TransportOutcomes == {"ok", "no_id", "raises"}

ErrorResult(message) == [status |-> "error", has_id |-> FALSE, message |-> message]
SentResult == [status |-> "sent", has_id |-> TRUE, message |-> "Email sent successfully."]

\* Validate that lets every str through
ValidateNothing(to) ==
    CASE to.kind = "none" -> "invalid"
      [] to.kind = "str" -> "valid"
      [] OTHER -> "raises"

\* `not to or '@' not in to`: "invalid", "valid", or "raises" when `in` is
\* applied to an object that is no container
Validate(to) ==
    CASE to.kind = "none" -> "invalid"
      [] to.kind = "str" ->
            IF to.chars = <<>> \/ ~Contains(to.chars, "@") THEN "invalid" ELSE "valid"
      [] OTHER -> "raises"

\* send_email(to, subject, body, html_body): the returned dict, whether the
\* message was handed to the Gmail service, whether the call raised.
\* build_ok: the message object was built and encoded without an exception.
send_email(to, html_body, build_ok, outcome) ==
    LET checked == Validate(to)
    IN  IF checked = "invalid"
        THEN [result |-> ErrorResult("Invalid recipient email address"),
              handed |-> FALSE, raised |-> FALSE]
        ELSE IF checked = "raises" \/ ~build_ok
        THEN [result |-> ErrorResult("Failed to send email"),
              handed |-> FALSE, raised |-> FALSE]
        ELSE [result |-> IF outcome = "ok" THEN SentResult
                         ELSE ErrorResult("Failed to send email"),
              handed |-> TRUE, raised |-> FALSE]

InitMail ==
    /\ transport = <<>>
    /\ sent = <<>>
    /\ PipelineIdle /\ QueriesIdle /\ StagesIdle /\ LoadsIdle /\ SelectionIdle /\ ClientIdle /\ OutreachIdle /\ RecsIdle

notMail == <<pipelineVars, queryVars, stageVars, loadVars, selectionVars, clientVars, outreachVars, recVars>>

\* one call of send_email
SendEmail ==
    /\ Len(transport) < MaxSends
    /\ \E to \in Recipients, html_body \in HtmlBodies, build_ok \in BOOLEAN,
          outcome \in TransportOutcomes :
         LET r == send_email(to, html_body, build_ok, outcome)
         IN  /\ transport' = IF r.handed THEN Append(transport, to) ELSE transport
             /\ sent' = <<[to |-> to, html_body |-> html_body, result |-> r.result,
                           raised |-> r.raised, before |-> Len(transport)]>>
    /\ UNCHANGED notMail

NextMail == SendEmail

SpecMail == InitMail /\ [][NextMail]_vars

(* C18: send_email never raises and returns a result whose status is "sent"
   or "error"; for a recipient that is empty or has no '@' the status is
   "error" and no message is handed to the mail transport. *)
C18_SendNeverRaises ==
    \A i \in 1..Len(sent) :
        LET call == sent[i]
        IN  /\ ~call.raised
            /\ call.result.status \in {"sent", "error"}
            /\ (call.to.kind \in {"none", "str"} /\ ~Contains(call.to.chars, "@"))
                  => /\ call.result.status = "error"
                     /\ Len(transport) = call.before
                     /\ \A k \in 1..Len(transport) : transport[k] # call.to

\* a recipient without '@' is turned away after other messages were handed over
C18_Witness ==
    /\ Len(sent) = 1
    /\ sent[1].to = StrTo(<<"v", "e", "n", "u", "e">>)
    /\ sent[1].result.status = "error"
    /\ Len(transport) = 2 /\ sent[1].before = 2

----------------------------------------------------------------------------
(* toggle_venue_selection on st.session_state.selected_venues *)

\* the venues of the results page: MaxShown records, the last of which
\* carries the name of the first
ShownVenues ==
    {[id |-> i, name |-> IF i = MaxShown THEN RowName(1) ELSE RowName(i)] :
        i \in 1..MaxShown}

\* [v.get('name') for v in st.session_state.selected_venues]
VenueNames(selected) == [i \in 1..Len(selected) |-> selected[i].name]

\* toggle_venue_selection whose test is len(venue_names) <= 5
toggle_venue_selection_off_by_one(selected_list, venue, selected) ==
    IF selected
    THEN IF /\ ~Contains(VenueNames(selected_list), venue.name)
            /\ Len(VenueNames(selected_list)) <= MaxSelected
         THEN Append(selected_list, venue)
         ELSE selected_list
    ELSE SelectSeq(selected_list, LAMBDA v : v.name # venue.name)

\* toggle_venue_selection(venue, selected): the new selected_venues
toggle_venue_selection(selected_list, venue, selected) ==
    IF selected
    THEN IF /\ ~Contains(VenueNames(selected_list), venue.name)
            /\ Len(VenueNames(selected_list)) < MaxSelected
         THEN Append(selected_list, venue)
         ELSE selected_list
    ELSE SelectSeq(selected_list, LAMBDA v : v.name # venue.name)

InitSelection ==
    /\ selected_venues = <<>>
    /\ toggled = <<>>
    /\ PipelineIdle /\ QueriesIdle /\ StagesIdle /\ LoadsIdle /\ MailIdle /\ ClientIdle /\ OutreachIdle /\ RecsIdle

notSelection == <<pipelineVars, queryVars, stageVars, loadVars, mailVars, clientVars, outreachVars, recVars>>

\* one call of toggle_venue_selection
ToggleVenueSelection ==
    /\ \E venue \in ShownVenues, selected \in BOOLEAN :
         /\ selected_venues' = toggle_venue_selection(selected_venues, venue, selected)
         /\ toggled' = <<[venue |-> venue, selected |-> selected,
                          before |-> selected_venues]>>
    /\ UNCHANGED notSelection

\* reset_search
ResetSearch ==
    /\ selected_venues' = <<>>
    /\ toggled' = <<>>
    /\ UNCHANGED notSelection

NextSelection == ToggleVenueSelection \/ ResetSearch

SpecSelection == InitSelection /\ [][NextSelection]_vars

(* C19: after any sequence of toggle_venue_selection calls, selected_venues
   holds at most 5 venues, no two with the same name, and a select call made
   when 5 were selected left the list as it was. *)
C19_AtMostFiveDistinct ==
    /\ Len(selected_venues) <= 5
    /\ \A i, j \in 1..Len(selected_venues) :
          selected_venues[i].name = selected_venues[j].name => i = j
    /\ \A k \in 1..Len(toggled) :
          (toggled[k].selected /\ Len(toggled[k].before) = 5)
              => selected_venues = toggled[k].before

\* a sixth venue, not among the five selected, was just selected
C19_Witness ==
    /\ Len(selected_venues) = 5
    /\ Len(toggled) = 1 /\ toggled[1].selected /\ Len(toggled[1].before) = 5
    /\ \A i \in 1..5 : selected_venues[i].name # toggled[1].venue.name

----------------------------------------------------------------------------
(* get_email_client called by concurrent sessions: the steps that touch the
   module global EMAIL_CLIENT *)

\* a session's call: position, the instance it constructed (0 none), the
\* instance it returned (0 none), and the calls it has made
NoCall == [pc |-> "start", made |-> 0, got |-> 0, calls |-> 0]

InitClient ==
    /\ EMAIL_CLIENT = 0
    /\ constructed = 0
    /\ session = [p \in Sessions |-> NoCall]
    /\ handed = {}
    /\ PipelineIdle /\ QueriesIdle /\ StagesIdle /\ LoadsIdle /\ MailIdle /\ SelectionIdle /\ OutreachIdle /\ RecsIdle

notClient == <<pipelineVars, queryVars, stageVars, loadVars, mailVars, selectionVars, outreachVars, recVars>>

\* if EMAIL_CLIENT is None
CheckClient(p) ==
    /\ session[p].pc = "start"
    /\ session[p].calls < MaxClientCalls
    /\ session' = [session EXCEPT ![p].pc = IF EMAIL_CLIENT = 0 THEN "construct"
                                            ELSE "return",
                                  ![p].calls = @ + 1,
                                  ![p].made = 0, ![p].got = 0]
    /\ UNCHANGED <<EMAIL_CLIENT, constructed, handed>>
    /\ UNCHANGED notClient

\* EmailSystem(credentials_json): authenticate and build the service; an
\* exception of the OAuth flow leaves get_email_client
ConstructClient(p) ==
    /\ session[p].pc = "construct"
    /\ \E ok \in BOOLEAN :
         IF ok
         THEN /\ constructed' = constructed + 1
              /\ session' = [session EXCEPT ![p].pc = "assign", ![p].made = constructed + 1]
         ELSE /\ constructed' = constructed
              /\ session' = [session EXCEPT ![p].pc = "start"]
    /\ UNCHANGED <<EMAIL_CLIENT, handed>>
    /\ UNCHANGED notClient

\* EMAIL_CLIENT = <the new instance>
AssignClient(p) ==
    /\ session[p].pc = "assign"
    /\ EMAIL_CLIENT' = session[p].made
    /\ session' = [session EXCEPT ![p].pc = "return"]
    /\ UNCHANGED <<constructed, handed>>
    /\ UNCHANGED notClient

\* return EMAIL_CLIENT
ReturnClient(p) ==
    /\ session[p].pc = "return"
    /\ session' = [session EXCEPT ![p].pc = "start", ![p].got = EMAIL_CLIENT]
    /\ handed' = handed \cup {EMAIL_CLIENT}
    /\ UNCHANGED <<EMAIL_CLIENT, constructed>>
    /\ UNCHANGED notClient

NextClient ==
    \E p \in Sessions :
        \/ CheckClient(p) \/ ConstructClient(p) \/ AssignClient(p) \/ ReturnClient(p)

SpecClient == InitClient /\ [][NextClient]_vars

(* C20: for any sequence or interleaving of get_email_client calls, calls of
   concurrent sessions included, at most one EmailSystem is constructed and
   every call returns that same instance. *)
C20_OneEmailClient ==
    /\ constructed <= 1
    /\ Cardinality(handed) <= 1


----------------------------------------------------------------------------
(* shortlist_page (src/main_v2.py): inquiries to the selected venues.  One
   action is one run of the script.  A button the user presses is one the
   last run rendered enabled; in the run the press starts, st.button returns
   True for it. *)

\* the venues a shortlist is formed from
ShortlistNames == {RowName(i) : i \in 1..MaxShortlisted}

\* selected_venues as handle_shortlist_submit finds it: distinct names
Shortlists ==
    {q \in SeqsUpTo(ShortlistNames, MaxShortlisted) :
        q # <<>> /\ \A i, j \in 1..Len(q) : i < j => q[i] # q[j]}

\* what send_venue_request does on one call: return {"status": "sent"},
\* return {"status": "error"}, or raise
SendOutcomes == {"sent", "error", "raised"}

NoButtons == [send |-> {}, all |-> FALSE]

\* all(emails_sent.get(venue.get('name'), False) for venue in selected_venues)
all_sent(venues, sent_names) == \A i \in 1..Len(venues) : venues[i] \in sent_names

\* the Send Inquiry buttons and the bulk button as one run renders them:
\* each Send Inquiry button from emails_sent as the loop found it, the bulk
\* button from emails_sent as it is after the loop
Rendered(venues, contact, at_loop, after_loop) ==
    IF venues = <<>> THEN NoButtons
    ELSE [send |-> {venues[i] : i \in {k \in 1..Len(venues) :
                                          contact /\ venues[k] \notin at_loop}},
          all |-> contact /\ ~all_sent(venues, after_loop)]

\* venues_to_email: the selected venues without a true emails_sent entry
venues_to_email(venues, sent_names) ==
    SelectSeq(venues, LAMBDA n : n \notin sent_names)

NoneIssued == [n \in ShortlistNames |-> 0]

InitOutreach ==
    /\ shortlisted \in Shortlists
    /\ emails_sent = {}
    /\ buttons = NoButtons
    /\ contact_ready = FALSE
    /\ issued = NoneIssued
    /\ returned_sent = {}
    /\ PipelineIdle /\ QueriesIdle /\ StagesIdle /\ LoadsIdle /\ MailIdle
    /\ SelectionIdle /\ ClientIdle /\ RecsIdle

notOutreach == <<pipelineVars, queryVars, stageVars, loadVars, mailVars,
                 selectionVars, clientVars, recVars>>

\* a run started by an edit of the contact inputs
EditContact ==
    /\ \E filled \in BOOLEAN :
         /\ contact_ready' = filled
         /\ buttons' = Rendered(shortlisted, filled, emails_sent, emails_sent)
    /\ UNCHANGED <<shortlisted, emails_sent, issued, returned_sent>>
    /\ UNCHANGED notOutreach

\* a run started by a press of one venue's Send Inquiry button
SendInquiry ==
    /\ \E n \in buttons.send, outcome \in SendOutcomes :
         /\ issued[n] < MaxIssued
         /\ issued' = [issued EXCEPT ![n] = @ + 1]
         /\ returned_sent' = IF outcome = "sent" THEN returned_sent \cup {n}
                             ELSE returned_sent
         /\ emails_sent' = IF outcome = "sent" THEN emails_sent \cup {n}
                           ELSE emails_sent
         /\ buttons' = Rendered(shortlisted, contact_ready, emails_sent, emails_sent')
    /\ UNCHANGED <<shortlisted, contact_ready>>
    /\ UNCHANGED notOutreach

\* a run started by a press of the bulk button: send_all_emails over
\* venues_to_email; delivered are the venues whose call returns "sent"
SendAllEmails ==
    /\ buttons.all
    /\ LET targets == venues_to_email(shortlisted, emails_sent)
           target_names == {targets[i] : i \in 1..Len(targets)}
       IN  /\ \A n \in target_names : issued[n] < MaxIssued
           /\ \E delivered \in SUBSET target_names :
                /\ issued' = [n \in ShortlistNames |->
                                IF n \in target_names THEN issued[n] + 1 ELSE issued[n]]
                /\ returned_sent' = returned_sent \cup delivered
                /\ emails_sent' = emails_sent \cup delivered
    /\ buttons' = Rendered(shortlisted, contact_ready, emails_sent, emails_sent)
    /\ UNCHANGED <<shortlisted, contact_ready>>
    /\ UNCHANGED notOutreach

\* Back to Search Results, another selection, Form Shortlist: the page is
\* entered with new, empty contact inputs
FormShortlist ==
    /\ shortlisted' \in Shortlists
    /\ contact_ready' = FALSE
    /\ buttons' = NoButtons
    /\ UNCHANGED <<emails_sent, issued, returned_sent>>
    /\ UNCHANGED notOutreach

\* Start New Search: reset_search, then a search and a shortlist
StartNewSearch ==
    /\ emails_sent' = {}
    /\ shortlisted' \in Shortlists
    /\ contact_ready' = FALSE
    /\ buttons' = NoButtons
    /\ issued' = NoneIssued
    /\ returned_sent' = {}
    /\ UNCHANGED notOutreach

NextOutreach ==
    EditContact \/ SendInquiry \/ SendAllEmails \/ FormShortlist \/ StartNewSearch

SpecOutreach == InitOutreach /\ [][NextOutreach]_vars

(* C29: emails_sent[name] becomes true only after send_venue_request
   returned status "sent" for that venue, and from then until reset_search
   neither the Send Inquiry button of the venue nor the bulk action issues
   another send for it. *)
C29_NoSendAfterSent ==
    [][/\ emails_sent' \subseteq returned_sent'
       /\ \A n \in emails_sent : issued'[n] <= issued[n]]_vars

----------------------------------------------------------------------------
(* search_page (src/main_v2.py): the detailed recommendation of each
   displayed venue.  A run of the script walks the venues in order; one
   action is one iteration of that loop.  st.rerun() and a user interaction
   start the run again from the first venue; a run is interrupted only
   inside a call of st, so not between lines 659 and 661. *)

\* recommended_venues as Stage 1 returned it; two entries may share a name
DisplayLists ==
    {q \in SeqsUpTo(ShortlistNames, MaxDisplayed) : q # <<>>}

\* rec_key = f"rec_{venue_name}_{idx}"
rec_key(venue_name, idx) == <<venue_name, idx>>

RecKeys(venues) == {rec_key(venues[i], i) : i \in 1..Len(venues)}

\* d[key] = value on a dict
Put(dict, key, value) ==
    [k \in (DOMAIN dict) \cup {key} |-> IF k = key THEN value ELSE dict[k]]

\* the body of the expander with a test that never finds the key cached
render_recommendation_uncached(loading, cached, key, text) ==
    IF key \in loading
    THEN [loading |-> loading \ {key}, cached |-> Put(cached, key, text),
          called |-> TRUE, rerun |-> FALSE]
    ELSE [loading |-> loading \cup {key}, cached |-> cached,
          called |-> FALSE, rerun |-> TRUE]

\* the body of the expander for one venue: the two session-state
\* collections afterwards, whether get_venue_recommendation was called and
\* whether st.rerun() ended the run
render_recommendation(loading, cached, key, text) ==
    IF key \in loading
    THEN [loading |-> loading \ {key}, cached |-> Put(cached, key, text),
          called |-> TRUE, rerun |-> FALSE]
    ELSE IF key \notin DOMAIN cached
         THEN [loading |-> loading \cup {key}, cached |-> cached,
               called |-> FALSE, rerun |-> TRUE]
         ELSE [loading |-> loading, cached |-> cached,
               called |-> FALSE, rerun |-> FALSE]

NoCalls(venues) == [k \in RecKeys(venues) |-> 0]

InitRecs ==
    /\ displayed \in DisplayLists
    /\ venue_recommendations = <<>>
    /\ loading_recommendations = {}
    /\ cursor = 1
    /\ rec_calls = NoCalls(displayed)
    /\ written = <<>>
    /\ resets = 0
    /\ PipelineIdle /\ QueriesIdle /\ StagesIdle /\ LoadsIdle /\ MailIdle
    /\ SelectionIdle /\ ClientIdle /\ OutreachIdle

notRecs == <<pipelineVars, queryVars, stageVars, loadVars, mailVars,
             selectionVars, clientVars, outreachVars>>

\* one iteration of `for idx, venue in enumerate(venues, 1)`
RenderVenue ==
    /\ cursor \in 1..Len(displayed)
    /\ LET venue == [name |-> displayed[cursor]]
           key == rec_key(displayed[cursor], cursor)
       IN  \E resp \in Stage2Responses(venue, cursor) :
             LET recommendation == get_venue_recommendation(venue, cursor, resp).text
                 r == render_recommendation(loading_recommendations,
                                            venue_recommendations, key, recommendation)
             IN  /\ r.called => rec_calls[key] < MaxRecCalls
                 /\ loading_recommendations' = r.loading
                 /\ venue_recommendations' = r.cached
                 /\ rec_calls' = IF r.called THEN [rec_calls EXCEPT ![key] = @ + 1]
                                 ELSE rec_calls
                 /\ IF r.rerun
                    THEN cursor' = 1 /\ written' = written
                    ELSE /\ cursor' = IF cursor = Len(displayed) THEN 0 ELSE cursor + 1
                         \* st.write(st.session_state.venue_recommendations[rec_key])
                         /\ written' = Put(written, key,
                                           [text |-> r.cached[key],
                                            again |-> key \in DOMAIN written])
    /\ UNCHANGED <<displayed, resets>>
    /\ UNCHANGED notRecs

\* the user touches a widget of the page: the script runs again from the top
Interact ==
    /\ cursor' = 1
    /\ UNCHANGED <<displayed, venue_recommendations, loading_recommendations,
                   rec_calls, written, resets>>
    /\ UNCHANGED notRecs

\* Start New Search: reset_search and st.rerun, then the results of the
\* next search
ResetAndSearch ==
    /\ resets < MaxResets
    /\ resets' = resets + 1
    /\ displayed' \in DisplayLists
    /\ venue_recommendations' = <<>>
    /\ loading_recommendations' = {}
    /\ rec_calls' = NoCalls(displayed')
    /\ written' = <<>>
    /\ cursor' = 1
    /\ UNCHANGED notRecs

NextRecs == RenderVenue \/ Interact \/ ResetAndSearch

SpecRecs == InitRecs /\ [][NextRecs]_vars

(* C30: between two resets get_venue_recommendation is invoked at most once
   per recommendation key: the key goes from absent to loading to cached in
   venue_recommendations, is never in loading_recommendations and
   venue_recommendations at once, and later renders show the cached text
   without a new provider call. *)
C30_OneCallPerKey ==
    [][/\ \A k \in DOMAIN rec_calls' : rec_calls'[k] <= 1
       /\ loading_recommendations' \cap DOMAIN venue_recommendations' = {}
       /\ resets' = resets =>
            \A k \in RecKeys(displayed) :
               \* cached only from loading, with the one call
               /\ (k \in DOMAIN venue_recommendations'
                     /\ k \notin DOMAIN venue_recommendations)
                     => (k \in loading_recommendations /\ rec_calls'[k] = 1)
               \* loading only from absent
               /\ (k \in loading_recommendations' /\ k \notin loading_recommendations)
                     => (k \notin DOMAIN venue_recommendations /\ rec_calls[k] = 0)
               \* once cached, the text stays and no call is made
               /\ k \in DOMAIN venue_recommendations
                     => /\ k \in DOMAIN venue_recommendations'
                        /\ venue_recommendations'[k] = venue_recommendations[k]
                        /\ rec_calls'[k] = rec_calls[k]
               \* what a render shows is the cached text
               /\ k \in DOMAIN written'
                     => /\ k \in DOMAIN venue_recommendations'
                        /\ written'[k].text = venue_recommendations'[k]]_vars

\* after a reset, two venues of one name have each been fetched once, and a
\* later run has shown both texts again from the cache
C30_Witness ==
    /\ resets >= 1 /\ cursor = 0
    /\ Len(displayed) = MaxDisplayed /\ displayed[1] = displayed[2]
    /\ \A k \in RecKeys(displayed) :
          /\ k \in DOMAIN venue_recommendations
          /\ rec_calls[k] = 1
          /\ k \in DOMAIN written /\ written[k].again
====
